---- MODULE Spec2Model ----
(***************************************************************************)
(* Keyboard shortcut resolution and modal action dispatch of alatty:       *)
(* Mappings (alatty/keys.py) and the action dispatcher of Boss             *)
(* (alatty/boss.py: dispatch_action, combine, drain_actions).              *)
(*                                                                         *)
(* Everything runs on the UI thread: one key event, one menu action, one   *)
(* direct dispatch or one zero-delay timer callback is one atomic step.    *)
(* An active tab and an active window exist throughout (key events are     *)
(* delivered to a focused window).                                         *)
(***************************************************************************)
EXTENDS Integers, Sequences, FiniteSets, TLC

VARIABLES
    stack,      \* Mappings.keyboard_mode_stack: sequence of KeyboardMode
    ignore_os,  \* the flag set through set_ignore_os_keyboard_processing
    timers,     \* pending zero-delay timers created by Boss.drain_actions
    options,    \* the Options that Mappings.update_keymap last read
    last        \* what the last step did and returned (observation only)

vars == <<stack, ignore_os, timers, options, last>>

\* ----------------------------------------------------------------- bounds
MaxStack == 2
MaxTimers == 2
MaxCandidates == 3

\* ------------------------------------------------------------- key identity
NoKey == ""

\* Variant: the lock keys are part of the mask.
mod_mask_with_locks ==
    {"alt", "ctrl", "shift", "super", "meta", "hyper", "caps_lock", "num_lock"}

\* The modifiers kept by the mask of keys.py line 29.
mod_mask == {"alt", "ctrl", "shift", "super", "meta", "hyper"}

SingleKey(mods, is_native, key) == <<mods, is_native, key>>

KeyEvent(mods, key, shifted_key, native_key) ==
    [mods |-> mods, key |-> key, shifted_key |-> shifted_key, native_key |-> native_key]

\* keys.py lines 40-41: the identity of the first lookup.
PrimaryKey(ev) == SingleKey(ev.mods \cap mod_mask, FALSE, ev.key)

ModifierKeys == {"left_shift", "left_control"}

is_modifier_key(key) == key \in ModifierKeys

\* dict.get of a KeyMap; <<>> stands for None (a stored list is never empty).
KeyMapGet(keymap, sk) == IF sk \in DOMAIN keymap THEN keymap[sk] ELSE <<>>

\* Variant: no second lookup under the shifted key.
get_shortcut_no_shifted_lookup(keymap, ev) ==
    LET mods == ev.mods \cap mod_mask
        a1 == KeyMapGet(keymap, SingleKey(mods, FALSE, ev.key))
    IN  IF a1 = <<>> THEN KeyMapGet(keymap, SingleKey(mods, TRUE, ev.native_key)) ELSE a1

\* Variant: the native key is looked up first.
get_shortcut_native_first(keymap, ev) ==
    LET mods == ev.mods \cap mod_mask
        a0 == KeyMapGet(keymap, SingleKey(mods, TRUE, ev.native_key))
        a1 == IF a0 = <<>> THEN KeyMapGet(keymap, SingleKey(mods, FALSE, ev.key)) ELSE a0
    IN  IF a1 = <<>> /\ ev.shifted_key # NoKey /\ "shift" \in mods
        THEN KeyMapGet(keymap, SingleKey(mods \ {"shift"}, FALSE, ev.shifted_key))
        ELSE a1

\* keys.py lines 39-46.
get_shortcut(keymap, ev) ==
    LET mods == ev.mods \cap mod_mask
        a1 == KeyMapGet(keymap, PrimaryKey(ev))
        a2 == IF a1 = <<>> /\ ev.shifted_key # NoKey /\ "shift" \in mods
              THEN KeyMapGet(keymap, SingleKey(mods \ {"shift"}, FALSE, ev.shifted_key))
              ELSE a1
    IN  IF a2 = <<>> THEN KeyMapGet(keymap, SingleKey(mods, TRUE, ev.native_key)) ELSE a2

\* ---------------------------------------------------------- key definitions
KeyDefinition(is_sequence, rest, definition, when_focus_on) ==
    [is_sequence |-> is_sequence, rest |-> rest, definition |-> definition,
     when_focus_on |-> when_focus_on]

Map(definition) == KeyDefinition(FALSE, <<>>, definition, "")

Chord(rest, definition) == KeyDefinition(TRUE, rest, definition, "")

shift_sequence_and_copy(kd) == [kd EXCEPT !.rest = Tail(@)]

RECURSIVE LastTerminalIdx(_, _)
LastTerminalIdx(matches, i) ==
    IF i = 0 THEN 0
    ELSE IF matches[i].rest = <<>> THEN i ELSE LastTerminalIdx(matches, i - 1)

\* Variant: the last terminal entry is kept together with what follows it.
Retained_with_terminal(candidates) ==
    IF LastTerminalIdx(candidates, Len(candidates)) = 0 THEN candidates
    ELSE SubSeq(candidates, LastTerminalIdx(candidates, Len(candidates)), Len(candidates))

\* keys.py lines 97-105: what is kept of the candidates when one of them is
\* sequence-flagged.
Retained(candidates) ==
    IF LastTerminalIdx(candidates, Len(candidates)) = 0 THEN candidates
    ELSE IF LastTerminalIdx(candidates, Len(candidates)) = Len(candidates)
    THEN SubSeq(candidates, Len(candidates), Len(candidates))
    ELSE SubSeq(candidates, LastTerminalIdx(candidates, Len(candidates)) + 1,
                Len(candidates))

\* Variant: the filter compares with the first kept entry.
FocusFilter_by_first(kept) ==
    LET SameFocus(x) == x.when_focus_on = kept[1].when_focus_on
    IN  SelectSeq(kept, SameFocus)

\* keys.py lines 106-107: the entries with the when_focus_on of the last one.
FocusFilter(kept) ==
    LET SameFocus(x) == x.when_focus_on = kept[Len(kept)].when_focus_on
    IN  SelectSeq(kept, SameFocus)

\* Variant: without a sequence-flagged candidate the first candidate is returned.
matching_key_actions_first(candidates) ==
    IF \E i \in 1..Len(candidates) : candidates[i].is_sequence
    THEN FocusFilter(Retained(candidates))
    ELSE <<candidates[1]>>

matching_key_actions(candidates) ==
    IF \E i \in 1..Len(candidates) : candidates[i].is_sequence
    THEN FocusFilter(Retained(candidates))
    ELSE <<candidates[Len(candidates)]>>

\* Variant: only the first selected candidate is filed.
SequenceKeymap_first_only(final_actions) ==
    [sk \in {final_actions[1].rest[1]} |-> <<shift_sequence_and_copy(final_actions[1])>>]

\* The keymap of a sequence mode: every selected candidate filed under its
\* next chord key, shifted forward by one step (keys.py lines 144-145, 160-161).
SequenceKeymap(final_actions) ==
    LET nexts == {final_actions[i].rest[1] : i \in 1..Len(final_actions)}
        Shifted(fa) == shift_sequence_and_copy(fa)
        ShiftAll(s) == [i \in 1..Len(s) |-> Shifted(s[i])]
    IN  [sk \in nexts |->
            LET Under(fa) == fa.rest[1] = sk
            IN  ShiftAll(SelectSeq(final_actions, Under))]

\* ------------------------------------------------------------------ actions
\* A KeyAction: the function name, its argument, and what getattr finds under
\* that name in each of the three scopes: "absent" (no attribute), "ok" (a
\* handler that handles the action), "declined" (a handler that returns True,
\* the passthrough signal), "raises" (a handler that raises), and for Boss the
\* two handlers of boss.py lines 919-929, "push" and "pop".
KeyAction(func, arg, app, tab, win) ==
    [func |-> func, arg |-> arg, app |-> app, tab |-> tab, win |-> win]

new_tab == KeyAction("new_tab", "", "ok", "absent", "absent")
save_session == KeyAction("save_session", "", "ok", "absent", "absent")
next_layout == KeyAction("next_layout", "", "absent", "ok", "absent")
scroll_line_up == KeyAction("scroll_line_up", "", "absent", "absent", "ok")
nosuch == KeyAction("nosuch", "", "absent", "absent", "absent")
boom == KeyAction("boom", "", "raises", "absent", "absent")
pop_mode_action == KeyAction("pop_keyboard_mode", "", "pop", "absent", "absent")

push_mode_action(name) == KeyAction("push_keyboard_mode", name, "push", "absent", "absent")

Behaviours == {"absent", "ok", "declined", "raises"}

\* Every combination of what the three scopes can hold under one name.
ProbeActions ==
    {KeyAction("probe", "", a, t, w) : a \in Behaviours, t \in Behaviours, w \in Behaviours}

\* Alias expansion of an action definition: the list of actions, or a failure.
resolve_aliases(definition) ==
    CASE definition = "save_session" -> [raises |-> FALSE, actions |-> <<save_session>>]
      [] definition = "new_tab" -> [raises |-> FALSE, actions |-> <<new_tab>>]
      [] definition = "nosuch" -> [raises |-> FALSE, actions |-> <<nosuch>>]
      [] definition = "boom" -> [raises |-> FALSE, actions |-> <<boom>>]
      [] definition = "pop_keyboard_mode" -> [raises |-> FALSE, actions |-> <<pop_mode_action>>]
      [] definition = "push_keyboard_mode mb" ->
            [raises |-> FALSE, actions |-> <<push_mode_action("mb")>>]
      [] definition = "push_keyboard_mode shot" ->
            [raises |-> FALSE, actions |-> <<push_mode_action("shot")>>]
      [] definition = "push_keyboard_mode mp" ->
            [raises |-> FALSE, actions |-> <<push_mode_action("mp")>>]
      [] definition = "push_keyboard_mode me" ->
            [raises |-> FALSE, actions |-> <<push_mode_action("me")>>]
      [] definition = "push_keyboard_mode missing" ->
            [raises |-> FALSE, actions |-> <<push_mode_action("missing")>>]
      [] definition = "combine : new_tab : next_layout : scroll_line_up" ->
            [raises |-> FALSE, actions |-> <<new_tab, next_layout, scroll_line_up>>]
      [] definition = "combine : new_tab : push_keyboard_mode shot : boom : next_layout" ->
            [raises |-> FALSE,
             actions |-> <<new_tab, push_mode_action("shot"), boom, next_layout>>]
      [] definition = "combine : nosuch : new_tab" ->
            [raises |-> FALSE, actions |-> <<nosuch, new_tab>>]
      [] definition = "combine : boom : new_tab" ->
            [raises |-> FALSE, actions |-> <<boom, new_tab>>]
      [] OTHER -> [raises |-> TRUE, actions |-> <<>>]

\* ------------------------------------------------------------ configuration
CtrlX == SingleKey({"ctrl"}, FALSE, "x")
CtrlS == SingleKey({"ctrl"}, FALSE, "s")
CtrlD == SingleKey({"ctrl"}, FALSE, "d")
CtrlC == SingleKey({"ctrl"}, FALSE, "c")
CtrlT == SingleKey({"ctrl"}, FALSE, "t")
CtrlE == SingleKey({"ctrl"}, FALSE, "e")
CtrlB == SingleKey({"ctrl"}, FALSE, "b")
CtrlA == SingleKey({"ctrl"}, FALSE, "a")
CtrlN == SingleKey({"ctrl"}, FALSE, "n")
CtrlP == SingleKey({"ctrl"}, FALSE, "p")
CtrlQ == SingleKey({"ctrl"}, FALSE, "q")
F1 == SingleKey({}, FALSE, "f1")
F2 == SingleKey({}, FALSE, "f2")
F3 == SingleKey({}, FALSE, "f3")
F4 == SingleKey({}, FALSE, "f4")
ShiftKey == SingleKey({"shift"}, FALSE, "left_shift")

None == {}

Some(x) == {x}

TheValue(option) == CHOOSE x \in option : TRUE

KeyboardMode(name, keymap, on_unknown, on_action, sequence_keys) ==
    [name |-> name, keymap |-> keymap, on_unknown |-> on_unknown,
     on_action |-> on_action, sequence_keys |-> sequence_keys]

\* The three chords that start with ctrl+x; ctrl+x has no binding of its own.
CtrlXChords ==
    <<Chord(<<CtrlS>>, "save_session"),
      Chord(<<CtrlD>>, "nosuch"),
      Chord(<<CtrlC, CtrlC>>, "new_tab")>>

\* The root keymap of the first configuration.
RootKeymap1 ==
    (CtrlX :> CtrlXChords)
    @@ (CtrlT :> <<Map("combine : new_tab : next_layout : scroll_line_up")>>)
    @@ (CtrlE :> <<Map("combine : new_tab : push_keyboard_mode shot : boom : next_layout")>>)
    @@ (CtrlB :> <<Map("boom")>>)
    @@ (CtrlA :> <<Map("combine")>>)
    @@ (CtrlN :> <<Map("nosuch")>>)
    @@ (CtrlP :> <<Map("pop_keyboard_mode")>>)
    @@ (CtrlQ :> <<Map("new_tab")>>)
    @@ (F1 :> <<Map("push_keyboard_mode mb")>>)
    @@ (F2 :> <<Map("push_keyboard_mode shot")>>)
    @@ (F3 :> <<Map("push_keyboard_mode mp")>>)
    @@ (F4 :> <<Map("push_keyboard_mode me")>>)

\* The root keymap of the second configuration: new_tab has moved to ctrl+s,
\* and the shift key on its own opens a window.
RootKeymap2 ==
    (CtrlX :> CtrlXChords)
    @@ (CtrlS :> <<Map("new_tab")>>)
    @@ (ShiftKey :> <<Map("new_window")>>)
    @@ (CtrlQ :> <<Map("save_session")>>)
    @@ (CtrlP :> <<Map("pop_keyboard_mode")>>)
    @@ (F1 :> <<Map("push_keyboard_mode mb")>>)

\* The configurations a reload can load.
OptionsSet == {"first", "second"}

OptionsRootKeymap(o) == IF o = "first" THEN RootKeymap1 ELSE RootKeymap2

ModeKeymap ==
    (CtrlX :> CtrlXChords)
    @@ (CtrlT :> <<Map("combine : new_tab : next_layout : scroll_line_up")>>)
    @@ (CtrlB :> <<Map("boom")>>)
    @@ (CtrlS :> <<Map("save_session")>>)
    @@ (CtrlN :> <<Map("nosuch")>>)
    @@ (CtrlP :> <<Map("pop_keyboard_mode")>>)
    @@ (F2 :> <<Map("push_keyboard_mode shot")>>)

\* A chord or a binding tied to a focus condition cannot be a global shortcut.
is_suitable_for_global_shortcut(kd) == ~kd.is_sequence /\ kd.when_focus_on = ""

\* The actions that become global shortcuts (main.py lines 160-162); the
\* model's configurations bind only these two among them.
GlobalActions == {"new_tab", "new_window"}

\* set_cocoa_global_shortcuts: action name -> the SingleKey bound to it in the
\* root keymap of the options (the last definition under a key is the active one).
SetCocoaGlobalShortcuts(o) ==
    LET km == OptionsRootKeymap(o)
        BoundTo(n) == {sk \in DOMAIN km : is_suitable_for_global_shortcut(km[sk][Len(km[sk])])
                                           /\ km[sk][Len(km[sk])].definition = n}
    IN  [n \in {x \in GlobalActions : BoundTo(x) # {}} |-> CHOOSE sk \in BoundTo(n) : TRUE]

\* Mappings.global_shortcuts for each configuration, computed once.
GlobalShortcutsOf == [o \in OptionsSet |-> SetCocoaGlobalShortcuts(o)]

global_shortcuts(o) == GlobalShortcutsOf[o]

\* keys.py line 60: SingleKey -> [KeyDefinition(definition = name)].
GlobalShortcutsMapFrom(gs) ==
    [sk \in {gs[n] : n \in DOMAIN gs} |-> <<Map(CHOOSE n \in DOMAIN gs : gs[n] = sk)>>]

GlobalShortcutsMapOf == [o \in OptionsSet |-> GlobalShortcutsMapFrom(global_shortcuts(o))]

global_shortcuts_map(o) == GlobalShortcutsMapOf[o]

\* Variant: the keys of the global shortcuts stay in the root keymap.
RootWithoutGlobal_kept(km, gmap) == km

\* The root keymap without the keys of the global shortcuts (keys.py 63-66).
RootWithoutGlobal(km, gmap) == [sk \in DOMAIN km \ DOMAIN gmap |-> km[sk]]

\* Mappings.keyboard_modes after update_keymap: the configured modes, the root
\* mode's keymap without the keys of the global shortcuts. The second
\* configuration redefines the mode mb.
UpdateKeymapModes(o) ==
    [n \in {"", "mb", "shot", "mp", "me"} |->
        CASE n = "" -> KeyboardMode("", RootWithoutGlobal(OptionsRootKeymap(o),
                                                         global_shortcuts_map(o)),
                                    "beep", "keep", None)
          [] n = "mb" -> KeyboardMode("mb", ModeKeymap,
                                      IF o = "first" THEN "beep" ELSE "passthrough",
                                      "keep", None)
          [] n = "shot" -> KeyboardMode("shot", ModeKeymap, "ignore", "end", None)
          [] n = "mp" -> KeyboardMode("mp", ModeKeymap, "passthrough", "end", None)
          [] n = "me" -> KeyboardMode("me", ModeKeymap, "end", "keep", None)]

KeyboardModesOf == [o \in OptionsSet |-> UpdateKeymapModes(o)]

keyboard_modes(o) == KeyboardModesOf[o]

\* ------------------------------------------------------------- the machine
\* The mutable state one step works on: the three state variables plus what
\* the step has done so far (handlers called, errors shown, keys replayed, the
\* combine call made).
Machine(st, ig, tm, o) ==
    [stack |-> st, ignore_os |-> ig, timers |-> tm, options |-> o,
     calls |-> <<>>, errors |-> <<>>, sent |-> <<>>, comb |-> <<>>]

NoWindow == "None"

ActiveWindow == "active"

set_ignore_os_keyboard_processing(m, on) == [m EXCEPT !.ignore_os = on]

show_error(m, title, msg) ==
    [m EXCEPT !.errors = Append(@, [title |-> title, msg |-> msg])]

\* Variant: only the first buffered key is replayed.
send_key_sequence_first_only(m, keys) == [m EXCEPT !.sent = @ \o SubSeq(keys, 1, 1)]

\* w.send_key_sequence(*keys): the keys reach the focused window in order.
send_key_sequence(m, keys) == [m EXCEPT !.sent = @ \o keys]

\* Variant: a removal never switches the flag off.
AfterRemoval_keeps_flag(m) == m

\* Mappings.clear_keyboard_modes.
clear_keyboard_modes(m) ==
    set_ignore_os_keyboard_processing([m EXCEPT !.stack = <<>>], FALSE)

\* The flag is switched off when a removal leaves the stack empty.
AfterRemoval(m) ==
    IF m.stack = <<>> THEN set_ignore_os_keyboard_processing(m, FALSE) ELSE m

\* Variant: a pop on the empty stack reports that a mode was removed.
pop_keyboard_mode_never_passthrough(m) ==
    IF m.stack # <<>>
    THEN [m |-> AfterRemoval([m EXCEPT !.stack = SubSeq(@, 1, Len(@) - 1)]),
          passthrough |-> FALSE]
    ELSE [m |-> m, passthrough |-> FALSE]

\* Mappings.pop_keyboard_mode: the machine after it and the value returned.
pop_keyboard_mode(m) ==
    IF m.stack # <<>>
    THEN [m |-> AfterRemoval([m EXCEPT !.stack = SubSeq(@, 1, Len(@) - 1)]),
          passthrough |-> FALSE]
    ELSE [m |-> m, passthrough |-> TRUE]

do_push_keyboard_mode(m, mode) ==
    set_ignore_os_keyboard_processing([m EXCEPT !.stack = Append(@, mode)], TRUE)

\* Mappings.push_keyboard_mode: an unknown name raises KeyError before any push.
push_keyboard_mode(m, new_mode) ==
    IF new_mode \in DOMAIN keyboard_modes(m.options)
    THEN [m |-> do_push_keyboard_mode(m, keyboard_modes(m.options)[new_mode]), exc |-> FALSE]
    ELSE [m |-> m, exc |-> TRUE]

\* Boss.push_keyboard_mode returns None; Boss.pop_keyboard_mode returns what
\* Mappings.pop_keyboard_mode returns.
BossPush(r) == [m |-> r.m, exc |-> r.exc, passthrough |-> FALSE]

BossPop(r) == [m |-> r.m, exc |-> FALSE, passthrough |-> r.passthrough]

\* The handler found under the name runs; b is what the scope holds.
RunHandler(m, b, a) ==
    CASE b = "ok" -> [m |-> m, exc |-> FALSE, passthrough |-> FALSE]
      [] b = "declined" -> [m |-> m, exc |-> FALSE, passthrough |-> TRUE]
      [] b = "raises" -> [m |-> m, exc |-> TRUE, passthrough |-> FALSE]
      [] b = "push" -> BossPush(push_keyboard_mode(m, a.arg))
      [] b = "pop" -> BossPop(pop_keyboard_mode(m))

\* The call is logged with how it ended: raised, or declined (returned True).
LogCall(r, scope, a, window, dispatch_type) ==
    [r EXCEPT !.m.calls = Append(@,
        [scope |-> scope, func |-> a.func, arg |-> a.arg, window |-> window,
         dispatch_type |-> dispatch_type, raised |-> r.exc,
         declined |-> r.passthrough])]

\* f(*key_action.args) for the handler found in `scope`.
CallHandler(m, scope, a, window, dispatch_type) ==
    LogCall(RunHandler(m, a[scope], a), scope, a, window, dispatch_type)

\* Variant: a name no scope exposes counts as handled.
NotCalled_handled(m) == [m |-> m, exc |-> FALSE, passthrough |-> FALSE]

NotCalled(m) == [m |-> m, exc |-> FALSE, passthrough |-> TRUE]

\* boss.py lines 993-997: the application-wide scope.
AppCall(m, a, window, dispatch_type) ==
    IF a.app # "absent" THEN CallHandler(m, "app", a, window, dispatch_type)
    ELSE NotCalled(m)

\* boss.py lines 1009-1011: getattr(tab, func, getattr(window, func, None)).
TabOrWindowCall(m, a, window, dispatch_type) ==
    IF a.tab # "absent" THEN CallHandler(m, "tab", a, window, dispatch_type)
    ELSE IF a.win # "absent" THEN CallHandler(m, "win", a, window, dispatch_type)
    ELSE NotCalled(m)

AfterTabOrWindow(r2) ==
    IF r2.exc THEN [m |-> r2.m, ret |-> FALSE, exc |-> TRUE]
    ELSE [m |-> r2.m, ret |-> ~r2.passthrough, exc |-> FALSE]

\* boss.py lines 998-1015: what follows the call in the application scope.
AfterApp(r1, a, window, dispatch_type) ==
    IF r1.exc THEN [m |-> r1.m, ret |-> FALSE, exc |-> TRUE]
    ELSE IF ~r1.passthrough THEN [m |-> r1.m, ret |-> TRUE, exc |-> FALSE]
    ELSE AfterTabOrWindow(TabOrWindowCall(r1.m, a, window, dispatch_type))

DispatchWindow(window_for_dispatch) ==
    IF window_for_dispatch = NoWindow THEN ActiveWindow ELSE window_for_dispatch

\* Boss.dispatch_action: [m, ret, exc]; exc = an exception leaves the call.
dispatch_action(m, a, window_for_dispatch, dispatch_type) ==
    AfterApp(AppCall(m, a, DispatchWindow(window_for_dispatch), dispatch_type),
             a, DispatchWindow(window_for_dispatch), dispatch_type)

\* Boss.drain_actions: one zero-delay timer holding the actions still to run.
drain_actions(m, actions, window_for_dispatch, dispatch_type) ==
    [m EXCEPT !.timers = Append(@,
        [actions |-> actions, window_for_dispatch |-> window_for_dispatch,
         dispatch_type |-> dispatch_type])]

\* Variant: the second action of a chain runs inline, right after the first.
CombineDispatched_inline(d, actions, window_for_dispatch, dispatch_type) ==
    IF d.exc
    THEN [m |-> show_error(d.m, "Key action failed", actions[1].func), ret |-> TRUE]
    ELSE IF d.ret /\ Len(actions) > 1
    THEN [m |-> drain_actions(
                    dispatch_action(d.m, actions[2], window_for_dispatch, dispatch_type).m,
                    Tail(actions), window_for_dispatch, dispatch_type),
          ret |-> TRUE]
    ELSE [m |-> d.m, ret |-> d.ret]

\* boss.py lines 1042-1050: after dispatch_action of the first action.
CombineDispatched(d, actions, window_for_dispatch, dispatch_type) ==
    IF d.exc
    THEN [m |-> show_error(d.m, "Key action failed", actions[1].func), ret |-> TRUE]
    ELSE IF d.ret /\ Len(actions) > 1
    THEN [m |-> drain_actions(d.m, Tail(actions), window_for_dispatch, dispatch_type),
          ret |-> TRUE]
    ELSE [m |-> d.m, ret |-> d.ret]

\* Variant: a failed alias expansion is dropped without an error report.
CombineResolved_silent(m, action_definition, ra, window_for_dispatch, dispatch_type) ==
    IF ra.raises THEN [m |-> m, ret |-> TRUE]
    ELSE IF ra.actions = <<>> THEN [m |-> m, ret |-> FALSE]
    ELSE CombineDispatched(
            dispatch_action(m, ra.actions[1], window_for_dispatch, dispatch_type),
            ra.actions, window_for_dispatch, dispatch_type)

\* boss.py lines 1037-1041: after alias expansion.
CombineResolved(m, action_definition, ra, window_for_dispatch, dispatch_type) ==
    IF ra.raises
    THEN [m |-> show_error(m, "Failed to parse action", action_definition), ret |-> TRUE]
    ELSE IF ra.actions = <<>> THEN [m |-> m, ret |-> FALSE]
    ELSE CombineDispatched(
            dispatch_action(m, ra.actions[1], window_for_dispatch, dispatch_type),
            ra.actions, window_for_dispatch, dispatch_type)

\* Boss.combine with raise_error = False: [m, ret]; no exception leaves it.
combine_body(m, action_definition, window_for_dispatch, dispatch_type) ==
    IF action_definition = "" THEN [m |-> m, ret |-> FALSE]
    ELSE CombineResolved(m, action_definition, resolve_aliases(action_definition),
                         window_for_dispatch, dispatch_type)

\* The combine call recorded: the definition, the mode stack before and after,
\* the timers and the number of handler calls before, and the value returned.
RecordCombine(m, action_definition, r) ==
    [m |-> [r.m EXCEPT !.comb = Append(@,
                [definition |-> action_definition, before |-> m.stack,
                 after |-> r.m.stack, timers_before |-> m.timers,
                 calls_before |-> Len(m.calls), errors_before |-> Len(m.errors),
                 ret |-> r.ret])],
     ret |-> r.ret]

combine(m, action_definition, window_for_dispatch, dispatch_type) ==
    RecordCombine(m, action_definition,
        combine_body(m, action_definition, window_for_dispatch, dispatch_type))

\* Variant: the one-shot mode is removed whatever combine returned.
OneShotPop_unconditional(c, mode, is_root_mode, mode_pos) ==
    IF ~is_root_mode /\ mode.on_action = "end"
       /\ mode_pos <= Len(c.m.stack) /\ c.m.stack[mode_pos] = mode
    THEN [m |-> AfterRemoval([c.m EXCEPT !.stack =
                    SubSeq(@, 1, mode_pos - 1) \o SubSeq(@, mode_pos + 1, Len(@))]),
          ret |-> c.ret, branch |-> "action"]
    ELSE [m |-> c.m, ret |-> c.ret, branch |-> "action"]

\* Variant: the one-shot pop removes whatever mode is on top.
OneShotPop_top(c, mode, is_root_mode, mode_pos) ==
    IF c.ret /\ ~is_root_mode /\ mode.on_action = "end" /\ c.m.stack # <<>>
    THEN [m |-> AfterRemoval([c.m EXCEPT !.stack = SubSeq(@, 1, Len(@) - 1)]),
          ret |-> c.ret, branch |-> "action"]
    ELSE [m |-> c.m, ret |-> c.ret, branch |-> "action"]

\* keys.py lines 165-170: the pop of a one-shot mode still at its position.
OneShotPop(c, mode, is_root_mode, mode_pos) ==
    IF c.ret /\ ~is_root_mode /\ mode.on_action = "end"
       /\ mode_pos <= Len(c.m.stack) /\ c.m.stack[mode_pos] = mode
    THEN [m |-> AfterRemoval([c.m EXCEPT !.stack =
                    SubSeq(@, 1, mode_pos - 1) \o SubSeq(@, mode_pos + 1, Len(@))]),
          ret |-> c.ret, branch |-> "action"]
    ELSE [m |-> c.m, ret |-> c.ret, branch |-> "action"]

\* keys.py lines 163-170: dispatch of a non-sequence binding.
dispatch_final_action(m, mode, is_root_mode, final_action) ==
    OneShotPop(combine(m, final_action.definition, NoWindow, "KeyPress"),
               mode, is_root_mode, Len(m.stack))

\* Variant: a completed chord is reported consumed whatever combine returned.
SequenceDone_always_consumed(c, sequence_keys) ==
    [m |-> IF ~c.ret THEN send_key_sequence(c.m, sequence_keys) ELSE c.m,
     ret |-> TRUE, branch |-> "seq_done"]

\* Variant: a consumed chord also ends the one-shot mode it was started in.
SequenceDone_ends_mode_below(c, sequence_keys) ==
    [m |-> IF ~c.ret THEN send_key_sequence(c.m, sequence_keys)
           ELSE IF c.m.stack # <<>> /\ c.m.stack[Len(c.m.stack)].on_action = "end"
           THEN AfterRemoval([c.m EXCEPT !.stack = SubSeq(@, 1, Len(@) - 1)])
           ELSE c.m,
     ret |-> c.ret, branch |-> "seq_done"]

\* keys.py lines 152-156: the chord's action has been dispatched.
SequenceDone(c, sequence_keys) ==
    [m |-> IF ~c.ret THEN send_key_sequence(c.m, sequence_keys) ELSE c.m,
     ret |-> c.ret, branch |-> "seq_done"]

\* Variant: the chord advances without recording the key.
SequenceStep_no_append(m, mode, ev, final_actions) ==
    [m EXCEPT !.stack[Len(m.stack)] =
        [mode EXCEPT !.keymap = SequenceKeymap(final_actions)]]

\* Variant: the new entries are added to the keymap of the previous step.
SequenceStep_merging(m, mode, ev, final_actions) ==
    [m EXCEPT !.stack[Len(m.stack)] =
        [mode EXCEPT !.sequence_keys = Some(Append(TheValue(@), ev)),
                     !.keymap = SequenceKeymap(final_actions) @@ @]]

\* keys.py lines 157-161: the chord advances; the mode is changed in place.
SequenceStep(m, mode, ev, final_actions) ==
    [m EXCEPT !.stack[Len(m.stack)] =
        [mode EXCEPT !.sequence_keys = Some(Append(TheValue(@), ev)),
                     !.keymap = SequenceKeymap(final_actions)]]

\* Variant: the sequence mode starts with an empty buffer.
SequenceMode_empty_buffer(ev, final_actions) ==
    KeyboardMode("__sequence__", SequenceKeymap(final_actions), "beep", "end",
                 Some(<<>>))

\* keys.py lines 141-146: the synthesized sequence mode.
SequenceMode(ev, final_actions) ==
    KeyboardMode("__sequence__", SequenceKeymap(final_actions), "beep", "end",
                 Some(<<ev>>))

\* Variant: the completed chord dispatches without popping the sequence mode.
dispatch_sequence_no_pop(m, mode, ev, final_actions) ==
    IF mode.sequence_keys = None
    THEN [m |-> do_push_keyboard_mode(m, SequenceMode(ev, final_actions)),
          ret |-> TRUE, branch |-> "seq_start"]
    ELSE IF Len(final_actions) = 1 /\ final_actions[1].rest = <<>>
    THEN SequenceDone(combine(m, final_actions[1].definition, NoWindow, "KeyPress"),
                      TheValue(mode.sequence_keys))
    ELSE [m |-> SequenceStep(m, mode, ev, final_actions),
          ret |-> TRUE, branch |-> "seq_step"]

\* keys.py lines 139-162: a selection whose first entry is sequence-flagged.
dispatch_sequence(m, mode, ev, final_actions) ==
    IF mode.sequence_keys = None
    THEN [m |-> do_push_keyboard_mode(m, SequenceMode(ev, final_actions)),
          ret |-> TRUE, branch |-> "seq_start"]
    ELSE IF Len(final_actions) = 1 /\ final_actions[1].rest = <<>>
    THEN SequenceDone(combine(pop_keyboard_mode(m).m, final_actions[1].definition,
                              NoWindow, "KeyPress"),
                      TheValue(mode.sequence_keys))
    ELSE [m |-> SequenceStep(m, mode, ev, final_actions),
          ret |-> TRUE, branch |-> "seq_step"]

\* Variant: the final pop reports consumed whatever pop_keyboard_mode returned.
UnknownPop_always_consumed(p) ==
    [m |-> p.m, ret |-> TRUE, branch |-> IF ~p.passthrough THEN "end_mode" ELSE "unknown_root"]

\* keys.py lines 133-134 and 171: the final pop_keyboard_mode.
UnknownPop(p) ==
    IF ~p.passthrough THEN [m |-> p.m, ret |-> TRUE, branch |-> "end_mode"]
    ELSE [m |-> p.m, ret |-> FALSE, branch |-> "unknown_root"]

\* Variant: every mode ends on an unknown key, whatever its on_unknown.
OnUnknown_always_ends(m, mode, is_root_mode) == UnknownPop(pop_keyboard_mode(m))

\* Variant: a mode with any other on_unknown swallows the key and stays.
OnUnknown_never_ends(m, mode, is_root_mode) ==
    IF is_root_mode THEN UnknownPop(pop_keyboard_mode(m))
    ELSE IF mode.on_unknown = "passthrough"
    THEN [m |-> m, ret |-> FALSE, branch |-> "passthrough"]
    ELSE [m |-> m, ret |-> TRUE, branch |-> "swallow"]

\* keys.py lines 129-134: what the active mode does with an unknown key.
OnUnknown(m, mode, is_root_mode) ==
    IF ~is_root_mode /\ mode.on_unknown \in {"beep", "ignore"}
    THEN [m |-> m, ret |-> TRUE, branch |-> "swallow"]
    ELSE IF ~is_root_mode /\ mode.on_unknown = "passthrough"
    THEN [m |-> m, ret |-> FALSE, branch |-> "passthrough"]
    ELSE UnknownPop(pop_keyboard_mode(m))

\* Variant: a modifier key without a binding is reported consumed.
IgnoredModifier_consumed(m) == [m |-> m, ret |-> TRUE, branch |-> "modifier"]

\* keys.py lines 118-119: a modifier key without a binding is ignored.
IgnoredModifier(m) == [m |-> m, ret |-> FALSE, branch |-> "modifier"]

\* Variant: the binding of the matching global shortcut is dispatched.
GlobalMatch_dispatching(m, key_action) ==
    [m |-> combine(m, key_action[1].definition, NoWindow, "KeyPress").m,
     ret |-> TRUE, branch |-> "global"]

\* keys.py lines 120-121: the event matches a global shortcut; the call
\* returns True and does nothing else.
GlobalMatch(m, key_action) == [m |-> m, ret |-> TRUE, branch |-> "global"]

\* Variant: abandoning a chord replays the buffered keys and the event itself.
dispatch_unknown_replays_event(m, mode, is_root_mode, ev) ==
    IF is_modifier_key(ev.key) THEN IgnoredModifier(m)
    ELSE IF DOMAIN global_shortcuts_map(m.options) # {}
            /\ get_shortcut(global_shortcuts_map(m.options), ev) # <<>>
    THEN GlobalMatch(m, get_shortcut(global_shortcuts_map(m.options), ev))
    ELSE IF ~is_root_mode /\ mode.sequence_keys # None
    THEN [m |-> send_key_sequence(pop_keyboard_mode(m).m,
                                  Append(TheValue(mode.sequence_keys), ev)),
          ret |-> FALSE, branch |-> "abandon"]
    ELSE OnUnknown(m, mode, is_root_mode)

\* Variant: a chord in progress is abandoned before the modifier and the
\* global shortcut checks.
dispatch_unknown_abandons_first(m, mode, is_root_mode, ev) ==
    IF ~is_root_mode /\ mode.sequence_keys # None
    THEN [m |-> send_key_sequence(pop_keyboard_mode(m).m, TheValue(mode.sequence_keys)),
          ret |-> FALSE, branch |-> "abandon"]
    ELSE IF is_modifier_key(ev.key) THEN IgnoredModifier(m)
    ELSE IF DOMAIN global_shortcuts_map(m.options) # {}
            /\ get_shortcut(global_shortcuts_map(m.options), ev) # <<>>
    THEN GlobalMatch(m, get_shortcut(global_shortcuts_map(m.options), ev))
    ELSE OnUnknown(m, mode, is_root_mode)

\* keys.py lines 117-134: no binding for the event in the active mode.
dispatch_unknown(m, mode, is_root_mode, ev) ==
    IF is_modifier_key(ev.key) THEN IgnoredModifier(m)
    ELSE IF DOMAIN global_shortcuts_map(m.options) # {}
            /\ get_shortcut(global_shortcuts_map(m.options), ev) # <<>>
    THEN GlobalMatch(m, get_shortcut(global_shortcuts_map(m.options), ev))
    ELSE IF ~is_root_mode /\ mode.sequence_keys # None
    THEN [m |-> send_key_sequence(pop_keyboard_mode(m).m, TheValue(mode.sequence_keys)),
          ret |-> FALSE, branch |-> "abandon"]
    ELSE OnUnknown(m, mode, is_root_mode)

\* keys.py lines 136-170: the event has candidates; final_actions is the selection.
dispatch_final_actions(m, mode, is_root_mode, ev, final_actions) ==
    IF final_actions = <<>> THEN [m |-> m, ret |-> FALSE, branch |-> "none"]
    ELSE IF final_actions[1].is_sequence
    THEN dispatch_sequence(m, mode, ev, final_actions)
    ELSE dispatch_final_action(m, mode, is_root_mode, final_actions[1])

\* Variant: the global shortcut map is looked at before the active mode.
dispatch_key_action_global_first(m, mode, is_root_mode, ev, key_action) ==
    IF get_shortcut(global_shortcuts_map(m.options), ev) # <<>>
    THEN GlobalMatch(m, get_shortcut(global_shortcuts_map(m.options), ev))
    ELSE IF key_action = <<>> THEN dispatch_unknown(m, mode, is_root_mode, ev)
    ELSE dispatch_final_actions(m, mode, is_root_mode, ev,
                                matching_key_actions(key_action))

\* keys.py lines 116-136: key_action is what get_shortcut found.
dispatch_key_action(m, mode, is_root_mode, ev, key_action) ==
    IF key_action = <<>> THEN dispatch_unknown(m, mode, is_root_mode, ev)
    ELSE dispatch_final_actions(m, mode, is_root_mode, ev,
                                matching_key_actions(key_action))

\* Variant: the mode at the bottom of the stack is the active one.
ActiveMode_bottom(st, o) == IF st = <<>> THEN keyboard_modes(o)[""] ELSE st[1]

\* keys.py line 115: the top of the mode stack, or the root mode.
ActiveMode(st, o) == IF st = <<>> THEN keyboard_modes(o)[""] ELSE st[Len(st)]

\* Mappings.dispatch_possible_special_key: [m, ret, branch].
dispatch_possible_special_key(m, ev) ==
    dispatch_key_action(m, ActiveMode(m.stack, m.options), m.stack = <<>>, ev,
                        get_shortcut(ActiveMode(m.stack, m.options).keymap, ev))

\* boss.py lines 1406-1407: after the dispatch in the timer callback.
DrainNext(d, rest) ==
    IF d.exc THEN [m |-> d.m, exc |-> TRUE]
    ELSE IF rest # <<>>
    THEN [m |-> drain_actions(d.m, rest, NoWindow, "KeyPress"), exc |-> FALSE]
    ELSE [m |-> d.m, exc |-> FALSE]

\* The callback of Boss.drain_actions for one timer: [m, exc].
drain_callback(m, timer) ==
    DrainNext(dispatch_action(m, Head(timer.actions), timer.window_for_dispatch,
                              timer.dispatch_type),
              Tail(timer.actions))

\* -------------------------------------------------------------------- steps
NoEvent == KeyEvent({}, NoKey, NoKey, NoKey)

NoAction == KeyAction("", "", "absent", "absent", "absent")

EvCtrlX == KeyEvent({"ctrl"}, "x", NoKey, "n_x")
EvCtrlS == KeyEvent({"ctrl"}, "s", NoKey, "n_s")
EvCtrlD == KeyEvent({"ctrl"}, "d", NoKey, "n_d")
EvCtrlC == KeyEvent({"ctrl"}, "c", NoKey, "n_c")
EvCtrlT == KeyEvent({"ctrl"}, "t", NoKey, "n_t")
EvCtrlE == KeyEvent({"ctrl"}, "e", NoKey, "n_e")
EvCtrlB == KeyEvent({"ctrl"}, "b", NoKey, "n_b")
EvCtrlA == KeyEvent({"ctrl"}, "a", NoKey, "n_a")
EvCtrlN == KeyEvent({"ctrl"}, "n", NoKey, "n_n")
EvCtrlP == KeyEvent({"ctrl"}, "p", NoKey, "n_p")
EvCtrlQ == KeyEvent({"ctrl"}, "q", NoKey, "n_q")
EvF1 == KeyEvent({}, "f1", NoKey, "n_f1")
EvF2 == KeyEvent({}, "f2", NoKey, "n_f2")
EvF3 == KeyEvent({}, "f3", NoKey, "n_f3")
EvF4 == KeyEvent({}, "f4", NoKey, "n_f4")
EvK == KeyEvent({}, "k", NoKey, "n_k")
EvShift == KeyEvent({"shift"}, "left_shift", NoKey, "n_shift")

\* The key events the windowing layer delivers.
Events ==
    {EvCtrlX, EvCtrlS, EvCtrlD, EvCtrlC, EvCtrlT, EvCtrlE, EvCtrlB, EvCtrlA, EvCtrlN,
     EvCtrlP, EvCtrlQ, EvF1, EvF2, EvF3, EvF4, EvK, EvShift}

\* The definitions a menu entry can carry (Boss.user_menu_action).
MenuDefinitions ==
    {"", "combine", "combine : nosuch : new_tab", "combine : boom : new_tab",
     "push_keyboard_mode missing"}

Observe(op, ev, definition, action, m, ret, branch, escaped, fired) ==
    [op |-> op, ev |-> ev, definition |-> definition, action |-> action,
     ret |-> ret, branch |-> branch, escaped |-> escaped, fired |-> fired,
     calls |-> m.calls, errors |-> m.errors, sent |-> m.sent, comb |-> m.comb,
     before |-> stack, ignore_before |-> ignore_os, timers_before |-> timers,
     options_before |-> options]

Commit(m) ==
    /\ Len(m.stack) <= MaxStack
    /\ Len(m.timers) <= MaxTimers
    /\ stack' = m.stack
    /\ ignore_os' = m.ignore_os
    /\ timers' = m.timers
    /\ options' = m.options

KeyPressDone(ev, r) ==
    /\ Commit(r.m)
    /\ last' = Observe("key", ev, "", NoAction, r.m, r.ret, r.branch, FALSE, <<>>)

\* One key event: Boss.dispatch_possible_special_key(ev).
KeyPress(ev) ==
    KeyPressDone(ev, dispatch_possible_special_key(Machine(stack, ignore_os, timers, options), ev))

UserMenuActionDone(defn, r) ==
    /\ Commit(r.m)
    /\ last' = Observe("menu", NoEvent, defn, NoAction, r.m, r.ret, "", FALSE, <<>>)

\* Boss.user_menu_action(defn): combine with the default arguments.
UserMenuAction(defn) ==
    UserMenuActionDone(defn,
        combine(Machine(stack, ignore_os, timers, options), defn, NoWindow, "KeyPress"))

DispatchActionCallDone(a, r) ==
    /\ Commit(r.m)
    /\ last' = Observe("dispatch", NoEvent, "", a, r.m, r.ret, "", r.exc, <<>>)

\* Boss.dispatch_action called directly with one action.
DispatchActionCall(a) ==
    DispatchActionCallDone(a,
        dispatch_action(Machine(stack, ignore_os, timers, options), a, NoWindow, "KeyPress"))

TimerFiresDone(timer, r) ==
    /\ Commit(r.m)
    /\ last' = Observe("tick", NoEvent, "", Head(timer.actions), r.m, FALSE, "",
                       r.exc, <<timer>>)

RemoveTimer(tm, i) == SubSeq(tm, 1, i - 1) \o SubSeq(tm, i + 1, Len(tm))

\* The event loop fires pending timer i: the callback of drain_actions runs.
TimerFires(i) ==
    TimerFiresDone(timers[i],
        drain_callback(Machine(stack, ignore_os, RemoveTimer(timers, i), options), timers[i]))

\* Variant: the reload also empties the mode stack.
update_keymap_clearing(m, o) == [m EXCEPT !.options = o, !.stack = <<>>]

\* Mappings.update_keymap with the options now stored: the lookup tables are
\* rebuilt from them; the mode stack is not touched.
update_keymap(m, o) == [m EXCEPT !.options = o]

ApplyNewOptionsDone(o, m) ==
    /\ Commit(m)
    /\ last' = Observe("reload", NoEvent, o, NoAction, m, FALSE, "", FALSE, <<>>)

\* Boss.apply_new_options(opts): a configuration reload.
ApplyNewOptions(o) ==
    ApplyNewOptionsDone(o, update_keymap(Machine(stack, ignore_os, timers, options), o))

Init ==
    /\ stack = <<>>
    /\ ignore_os = FALSE
    /\ timers = <<>>
    /\ options = "first"
    /\ last = [op |-> "init", ev |-> NoEvent, definition |-> "", action |-> NoAction,
               ret |-> FALSE, branch |-> "", escaped |-> FALSE, fired |-> <<>>,
               calls |-> <<>>, errors |-> <<>>, sent |-> <<>>, comb |-> <<>>,
               before |-> <<>>, ignore_before |-> FALSE, timers_before |-> <<>>,
               options_before |-> "first"]

Next ==
    \/ \E ev \in Events : KeyPress(ev)
    \/ \E defn \in MenuDefinitions : UserMenuAction(defn)
    \/ \E i \in 1..Len(timers) : TimerFires(i)

Spec == Init /\ [][Next]_vars

\* The dispatcher on its own: dispatch_action called with every combination of
\* what the three scopes hold, and with the actions that change the mode stack.
ModeActions ==
    {push_mode_action(n) : n \in {"mb", "shot", "mp", "me", "missing"}} \cup {pop_mode_action}

NextDispatch ==
    \/ \E a \in ProbeActions : DispatchActionCall(a)
    \/ \E a \in ModeActions : DispatchActionCall(a)

SpecDispatch == Init /\ [][NextDispatch]_vars

\* Key events with configuration reloads in between. The keys bound to chains
\* are left out: no timer is ever pending here.
ReloadEvents == Events \ {EvCtrlT, EvCtrlE}

NextReload ==
    \/ \E ev \in ReloadEvents : KeyPress(ev)
    \/ \E o \in OptionsSet : ApplyNewOptions(o)

SpecReload == Init /\ [][NextReload]_vars

\* The methods that change the mode stack called directly, between key events.
\* The keys bound to chains are left out: no timer is ever pending here.
ModeNames == {"mb", "shot", "mp", "me", "missing"}

PushKeyboardModeDone(new_mode, r) ==
    /\ Commit(r.m)
    /\ last' = Observe("push", NoEvent, new_mode, NoAction, r.m, FALSE, "", r.exc, <<>>)

\* Mappings.push_keyboard_mode(new_mode).
PushKeyboardMode(new_mode) ==
    PushKeyboardModeDone(new_mode,
        push_keyboard_mode(Machine(stack, ignore_os, timers, options), new_mode))

PopKeyboardModeDone(r) ==
    /\ Commit(r.m)
    /\ last' = Observe("pop", NoEvent, "", NoAction, r.m, r.passthrough, "", FALSE, <<>>)

\* Mappings.pop_keyboard_mode(); last.ret holds the passthrough value returned.
PopKeyboardMode ==
    PopKeyboardModeDone(pop_keyboard_mode(Machine(stack, ignore_os, timers, options)))

ClearKeyboardModesDone(m) ==
    /\ Commit(m)
    /\ last' = Observe("clear", NoEvent, "", NoAction, m, FALSE, "", FALSE, <<>>)

\* Mappings.clear_keyboard_modes().
ClearKeyboardModes ==
    ClearKeyboardModesDone(clear_keyboard_modes(Machine(stack, ignore_os, timers, options)))

NextModes ==
    \/ \E ev \in ReloadEvents : KeyPress(ev)
    \/ \E n \in ModeNames : PushKeyboardMode(n)
    \/ PopKeyboardMode
    \/ ClearKeyboardModes

SpecModes == Init /\ [][NextModes]_vars

\* Boss.combine called for one window with a dispatch type of its own, as a
\* mouse binding does, and the ticks of the chains it schedules.
ChainWindow == "w1"

ChainDispatchType == "MouseEvent"

ChainDefinitions ==
    {"new_tab", "combine : nosuch : new_tab",
     "combine : new_tab : next_layout : scroll_line_up",
     "combine : new_tab : push_keyboard_mode shot : boom : next_layout"}

CombineCallDone(defn, r) ==
    /\ Commit(r.m)
    /\ last' = Observe("combine", NoEvent, defn, NoAction, r.m, r.ret, "", FALSE, <<>>)

\* Boss.combine(defn, window_for_dispatch, dispatch_type).
CombineCall(defn) ==
    CombineCallDone(defn,
        combine(Machine(stack, ignore_os, timers, options), defn,
                ChainWindow, ChainDispatchType))

NextChain ==
    \/ \E defn \in ChainDefinitions : CombineCall(defn)
    \/ \E i \in 1..Len(timers) : TimerFires(i)

SpecChain == Init /\ [][NextChain]_vars

\* ---------------------------------------------------------------- resolution
\* The resolver on its own: get_shortcut followed by matching_key_actions,
\* applied to every probe keymap and every probe event.
ProbeKeys ==
    {SingleKey({}, FALSE, "a"), SingleKey({"shift"}, FALSE, "a"),
     SingleKey({}, FALSE, "A"), SingleKey({"ctrl"}, FALSE, "A"),
     SingleKey({"shift"}, TRUE, "n_a"), SingleKey({"ctrl"}, TRUE, "n_a")}

\* What a probe keymap holds under a key: the name says which key it is. The
\* plain key "a" carries two definitions, the later one overriding the earlier.
ProbeEntry(sk) ==
    IF sk = SingleKey({}, FALSE, "a") THEN <<Map("a_old"), Map("a")>>
    ELSE IF sk = SingleKey({"shift"}, FALSE, "a") THEN <<Map("shift+a")>>
    ELSE IF sk = SingleKey({}, FALSE, "A") THEN <<Map("A")>>
    ELSE IF sk = SingleKey({"ctrl"}, FALSE, "A") THEN <<Map("ctrl+A")>>
    ELSE IF sk = SingleKey({"shift"}, TRUE, "n_a") THEN <<Map("shift+native")>>
    ELSE <<Map("ctrl+native")>>

ProbeKeymaps == {[sk \in ks |-> ProbeEntry(sk)] : ks \in SUBSET ProbeKeys}

ProbeEvents ==
    {KeyEvent(mods, key, shifted_key, native_key) :
        mods \in SUBSET {"shift", "ctrl", "caps_lock"}, key \in {"a", "b"},
        shifted_key \in {NoKey, "A"}, native_key \in {"n_a", "n_b"}}

\* Variant: the lookup empties the keymap, as mode.keymap.clear() would.
Resolve_clearing(keymap, ev) ==
    [keymap |-> [sk \in {} |-> <<>>],
     key_action |-> get_shortcut(keymap, ev),
     selected |-> IF get_shortcut(keymap, ev) = <<>> THEN <<>>
                  ELSE matching_key_actions(get_shortcut(keymap, ev))]

\* keys.py lines 116 and 136: the candidates found, the selection made, and
\* the keymap as the two calls leave it (they only read it).
Resolve(keymap, ev) ==
    [keymap |-> keymap,
     key_action |-> get_shortcut(keymap, ev),
     selected |-> IF get_shortcut(keymap, ev) = <<>> THEN <<>>
                  ELSE matching_key_actions(get_shortcut(keymap, ev))]

ResolveObserved(op, keymap, ev, first, r) ==
    [op |-> op, keymap_before |-> keymap, ev |-> ev, first |-> first,
     keymap |-> r.keymap, key_action |-> r.key_action, selected |-> r.selected]

NoResolution == [keymap |-> <<>>, key_action |-> <<>>, selected |-> <<>>]

InitResolve ==
    /\ stack = <<>>
    /\ ignore_os = FALSE
    /\ timers = <<>>
    /\ options = "first"
    /\ \E keymap \in ProbeKeymaps, ev \in ProbeEvents :
          last = [op |-> "input", keymap_before |-> keymap, ev |-> ev,
                  first |-> NoResolution, keymap |-> keymap,
                  key_action |-> <<>>, selected |-> <<>>]

\* The event is resolved against the keymap.
ResolveOnce ==
    /\ last.op = "input"
    /\ last' = ResolveObserved("resolved", last.keymap, last.ev, NoResolution,
                               Resolve(last.keymap, last.ev))
    /\ UNCHANGED <<stack, ignore_os, timers, options>>

\* The same event is resolved again, against the keymap the first call left.
ResolveAgain ==
    /\ last.op = "resolved"
    /\ last' = ResolveObserved("resolved_again", last.keymap, last.ev,
                               [keymap |-> last.keymap, key_action |-> last.key_action,
                                selected |-> last.selected],
                               Resolve(last.keymap, last.ev))
    /\ UNCHANGED <<stack, ignore_os, timers, options>>

NextResolve == ResolveOnce \/ ResolveAgain

SpecResolve == InitResolve /\ [][NextResolve]_vars

\* ----------------------------------------------------------------- selection
\* matching_key_actions on its own, applied to every list of candidates of up
\* to MaxCandidates entries.
CandidateKinds ==
    {[is_sequence |-> FALSE, rest |-> <<>>],
     [is_sequence |-> TRUE, rest |-> <<>>],
     [is_sequence |-> TRUE, rest |-> <<CtrlC>>]}

FocusConditions == {"", "vim"}

\* The i-th candidate of a list: its definition says which position it has.
Candidate(i, kind, focus) ==
    KeyDefinition(kind.is_sequence, kind.rest, <<"d1", "d2", "d3", "d4", "d5", "d6">>[i], focus)

CandidateLists ==
    UNION {{[i \in 1..n |-> Candidate(i, kinds[i], focus[i])] :
                kinds \in [1..n -> CandidateKinds], focus \in [1..n -> FocusConditions]} :
           n \in 1..MaxCandidates}

InitSelect ==
    /\ stack = <<>>
    /\ ignore_os = FALSE
    /\ timers = <<>>
    /\ options = "first"
    /\ \E candidates \in CandidateLists :
          last = [op |-> "candidates", candidates |-> candidates,
                  retained |-> <<>>, selected |-> <<>>]

\* final_actions = self.matching_key_actions(key_action); retained is what
\* lines 97-105 keep when a candidate is sequence-flagged.
Select ==
    /\ last.op = "candidates"
    /\ last' = [op |-> "selected", candidates |-> last.candidates,
                retained |-> IF \E i \in 1..Len(last.candidates) :
                                     last.candidates[i].is_sequence
                             THEN Retained(last.candidates) ELSE <<>>,
                selected |-> matching_key_actions(last.candidates)]
    /\ UNCHANGED <<stack, ignore_os, timers, options>>

NextSelect == Select

SpecSelect == InitSelect /\ [][NextSelect]_vars

\* --------------------------------------------------------------- properties
TopOf(st) == st[Len(st)]

Front(st) == SubSeq(st, 1, Len(st) - 1)

\* No sequence mode is on the stack: no chord is in progress.
NoChord(st) == \A i \in 1..Len(st) : st[i].sequence_keys = None

\* The active mode of stack st is a sequence mode.
InSequence(st) == st # <<>> /\ TopOf(st).sequence_keys # None

\* ev is not a modifier key and every lookup misses, in the active mode of
\* stack st and in the global shortcuts.
Unknown(ev, st, o) ==
    /\ get_shortcut(ActiveMode(st, o).keymap, ev) = <<>>
    /\ ~is_modifier_key(ev.key)
    /\ get_shortcut(global_shortcuts_map(o), ev) = <<>>

HandledCall(scope, func) ==
    [scope |-> scope, func |-> func, arg |-> "", window |-> ActiveWindow,
     dispatch_type |-> "KeyPress", raised |-> FALSE, declined |-> FALSE]

\* C1. Sequence round trip, for the chord ctrl+x > ctrl+s -> save_session
\* (ctrl+x has no binding of its own), an action the application handles.
\* With no chord in progress, ctrl+x is consumed, pushes exactly one
\* synthesized sequence mode and calls no handler; the ctrl+s that follows
\* calls the handler of save_session exactly once, is consumed, and leaves
\* the mode stack as it was before ctrl+x.
C1_SequenceRoundTrip ==
    [][/\ (last'.op = "key" /\ last'.ev = EvCtrlX /\ last'.before = stack /\ NoChord(stack))
            => /\ last'.ret
               /\ last'.calls = <<>>
               /\ Len(stack') = Len(stack) + 1
               /\ Front(stack') = stack
               /\ TopOf(stack').name = "__sequence__"
               /\ TopOf(stack').sequence_keys = Some(<<EvCtrlX>>)
       /\ (/\ last.op = "key" /\ last.ev = EvCtrlX /\ NoChord(last.before)
           /\ last'.op = "key" /\ last'.ev = EvCtrlS /\ last'.before = stack)
            => /\ last'.ret
               /\ last'.calls = <<HandledCall("app", "save_session")>>
               /\ last'.errors = <<>>
               /\ last'.sent = <<>>
               /\ stack' = last.before
      ]_vars

\* C1 witness: ctrl+s has just completed the chord, in root mode.
C1_Witness ==
    /\ last.op = "key" /\ last.ev = EvCtrlS
    /\ last.before # <<>> /\ TopOf(last.before).sequence_keys = Some(<<EvCtrlX>>)
    /\ last.calls = <<HandledCall("app", "save_session")>>
    /\ last.ret
    /\ stack = <<>>

\* The chord ctrl+x is pending alone and the event has no binding in the
\* sequence mode, is no modifier key and matches no global shortcut.
AbandonCase ==
    /\ last.op = "key"
    /\ InSequence(last.before)
    /\ TopOf(last.before).sequence_keys = Some(<<EvCtrlX>>)
    /\ Unknown(last.ev, last.before, last.options_before)

\* C2 as claimed. Sequence abandonment: ctrl+x then an unbound key k pops the
\* sequence mode and replays [ctrl+x, k], in that order, and the call for k
\* returns not-consumed.
C2_AbandonReplaysBoth ==
    AbandonCase =>
        /\ last.sent = <<EvCtrlX, last.ev>>
        /\ ~last.ret
        /\ stack = Front(last.before)

\* C2 amended. Sequence abandonment: ctrl+x then an unbound key k pops the
\* sequence mode and replays the buffered key [ctrl+x] alone, exactly once;
\* k is not replayed: the call for k returns not-consumed and calls no handler.
C2_AbandonReplaysBuffer ==
    AbandonCase =>
        /\ last.sent = <<EvCtrlX>>
        /\ ~last.ret
        /\ stack = Front(last.before)
        /\ last.calls = <<>>

C2_Witness ==
    /\ AbandonCase
    /\ last.ev = EvK
    /\ last.sent = <<EvCtrlX>>
    /\ ~last.ret

\* C3 as claimed. In every state, an event that is no modifier key and misses
\* every lookup in the active mode and in the global shortcuts is reported
\* not-consumed.
C3_UnknownNeverConsumed ==
    (last.op = "key" /\ Unknown(last.ev, last.before, last.options_before)) => ~last.ret

\* The active mode of stack st lets unknown keys through: the root mode, a
\* sequence mode, or a mode with on_unknown = passthrough.
PassesUnknown(st) ==
    \/ st = <<>>
    \/ TopOf(st).sequence_keys # None
    \/ TopOf(st).on_unknown = "passthrough"

\* C3 amended. Such an event is reported not-consumed exactly when the active
\* mode is the root mode, a sequence mode or a mode with on_unknown =
\* passthrough; in every other mode it is reported consumed.
C3_UnknownByMode ==
    (last.op = "key" /\ Unknown(last.ev, last.before, last.options_before))
        => (last.ret <=> ~PassesUnknown(last.before))

C3_Witness ==
    /\ last.op = "key"
    /\ Unknown(last.ev, last.before, last.options_before)
    /\ last.before # <<>>
    /\ TopOf(last.before).sequence_keys = None
    /\ TopOf(last.before).on_unknown = "passthrough"
    /\ ~last.ret

\* The step made one combine call, c, and c's definition expands to the
\* actions acts, more than one.
IsChain(c) ==
    /\ c.definition # ""
    /\ ~resolve_aliases(c.definition).raises
    /\ Len(resolve_aliases(c.definition).actions) > 1

Expansion(c) == resolve_aliases(c.definition).actions

Continuation(actions) ==
    [actions |-> actions, window_for_dispatch |-> NoWindow, dispatch_type |-> "KeyPress"]

\* The handler calls of the step are calls of action a alone.
CallsOnlyOf(calls, a) ==
    \A i \in 1..Len(calls) : calls[i].func = a.func /\ calls[i].arg = a.arg

Exposed(a) == a.app # "absent" \/ a.tab # "absent" \/ a.win # "absent"

\* What is left of the timers of the state before once the fired one is gone.
RestOfTimers(before, fired) ==
    {RemoveTimer(before, i) : i \in {j \in 1..Len(before) : before[j] = fired}}

\* A key or menu step: at most one combine call, which runs the first action
\* of a chain and no other, and schedules the rest as one continuation.
C4_CombineStep ==
    last.op \in {"key", "menu"} =>
        /\ Len(last.comb) <= 1
        /\ last.comb = <<>> => (timers = last.timers_before /\ last.calls = <<>>)
        /\ \A i \in 1..Len(last.comb) :
              IF IsChain(last.comb[i])
              THEN /\ CallsOnlyOf(last.calls, Expansion(last.comb[i])[1])
                   /\ Exposed(Expansion(last.comb[i])[1]) => last.calls # <<>>
                   /\ \/ timers = last.comb[i].timers_before
                      \/ timers = Append(last.comb[i].timers_before,
                                         Continuation(Tail(Expansion(last.comb[i]))))
              ELSE timers = last.comb[i].timers_before

\* A timer tick: the head of the fired chain runs and no other action, and
\* what is left of that chain is scheduled again, in the same order.
C4_TickStep ==
    last.op = "tick" =>
        /\ last.action = Head(last.fired[1].actions)
        /\ CallsOnlyOf(last.calls, last.action)
        /\ (Exposed(last.action) => last.calls # <<>>)
        /\ \E rest \in RestOfTimers(last.timers_before, last.fired[1]) :
              \/ timers = rest
              \/ /\ Tail(last.fired[1].actions) # <<>>
                 /\ timers = Append(rest, Continuation(Tail(last.fired[1].actions)))

\* C4. Chain ordering: the first action of a chain runs inside the combine
\* call; every later action runs only in a later timer tick, one action of
\* the chain per tick, in the order of the chain and after its predecessor,
\* whatever other key events and pending chains are interleaved.
C4_ChainOrdering ==
    /\ C4_CombineStep
    /\ C4_TickStep
    /\ \A i \in 1..Len(timers) : timers[i].actions # <<>>

\* C4 witness: a tick ran the second action of a three-action chain while
\* another chain was pending, and the third action is scheduled.
C4_Witness ==
    /\ last.op = "tick"
    /\ Len(last.timers_before) = 2
    /\ last.action = next_layout
    /\ last.calls # <<>>
    /\ timers # <<>>
    /\ TopOf(timers).actions = <<scroll_line_up>>

SomeCallRaised == \E i \in 1..Len(last.calls) : last.calls[i].raised

\* C5 as claimed. Error containment: when the handler of the action bound to
\* a key raises, in the root mode, an ordinary mode or a one-shot mode, no
\* exception leaves the call, one error is reported, the call returns
\* consumed and the mode stack keeps its depth.
C5_ErrorContainment ==
    (last.op = "key" /\ ~InSequence(last.before) /\ SomeCallRaised) =>
        /\ ~last.escaped
        /\ Len(last.errors) = 1
        /\ last.ret
        /\ Len(stack) = Len(last.before)

FirstExposing(a) ==
    IF a.app # "absent" THEN "app" ELSE IF a.tab # "absent" THEN "tab" ELSE "win"

\* C6 as claimed, for handlers that return. Declining is terminal: when the
\* first scope exposing the name declines, dispatch_action returns
\* not-consumed and calls no handler of a later scope; at most one handler is
\* called per dispatched action.
C6_DecliningIsTerminal ==
    (last.op = "dispatch" /\ ~SomeCallRaised) =>
        /\ Len(last.calls) <= 1
        /\ (last.calls # <<>> /\ last.calls[1].declined) => ~last.ret

\* C7 as claimed, for handlers that return. Scope priority: the handler
\* called is that of the first scope, in the order application, tab, window,
\* that exposes the name, and no handler of another scope is called.
C7_ScopePriority ==
    (last.op = "dispatch" /\ ~SomeCallRaised) =>
        \A i \in 1..Len(last.calls) : last.calls[i].scope = FirstExposing(last.action)

\* C8 as claimed. Every exception a handler raises, in combine or in a timer
\* tick, is caught and reported with the text of what failed, and leaves
\* neither combine nor the tick callback.
C8_EveryExceptionReported ==
    (last.op \in {"key", "menu", "tick"} /\ SomeCallRaised) =>
        /\ ~last.escaped
        /\ \E i \in 1..Len(last.errors) :
              \E j \in 1..Len(last.calls) :
                  last.calls[j].raised /\ last.errors[i].msg = last.calls[j].func

\* C9 as claimed, in the form a finite run refutes. A continuation runs only
\* from a pending timer, so "every action after the first is eventually
\* executed, whatever the outcome of the earlier ones" requires that after
\* the step that ran an action of a chain the rest of the chain is pending.
C9_RestOfChainPending ==
    /\ (last.op \in {"key", "menu"} /\ last.comb # <<>> /\ IsChain(last.comb[1]))
          => /\ timers # <<>>
             /\ TopOf(timers) = Continuation(Tail(Expansion(last.comb[1])))
             /\ Len(timers) = Len(last.timers_before) + 1
    /\ (last.op = "tick" /\ Tail(last.fired[1].actions) # <<>>)
          => /\ timers # <<>>
             /\ TopOf(timers) = Continuation(Tail(last.fired[1].actions))
             /\ Len(timers) = Len(last.timers_before)

\* The step made a combine call whose definition fails alias expansion.
AliasFailure(c) == c.definition # "" /\ resolve_aliases(c.definition).raises

Unexposed(c) ==
    /\ c.definition # ""
    /\ ~resolve_aliases(c.definition).raises
    /\ Expansion(c) # <<>>
    /\ ~Exposed(Expansion(c)[1])

\* C11. When no scope exposes the action name, combine (and the
\* dispatch_action call inside it) returns not-consumed, reports no error,
\* calls no handler and schedules nothing; a key bound to such an action in
\* root mode is reported not-consumed and leaves the mode stack empty.
C11_NoScopeExposes ==
    /\ \A i \in 1..Len(last.comb) :
          Unexposed(last.comb[i]) =>
              /\ ~last.comb[i].ret
              /\ last.errors = <<>>
              /\ last.calls = <<>>
              /\ timers = last.comb[i].timers_before
              /\ ~last.escaped
    /\ (/\ last.op = "key" /\ last.before = <<>>
        /\ get_shortcut(keyboard_modes(last.options_before)[""].keymap, last.ev)
              = <<Map("nosuch")>>)
          => (~last.ret /\ stack = <<>> /\ last.sent = <<>>)

\* C11 witness: ctrl+n, bound to an action no scope exposes, pressed in root mode.
C11_Witness ==
    /\ last.op = "key" /\ last.ev = EvCtrlN /\ last.before = <<>>
    /\ last.comb # <<>> /\ Unexposed(last.comb[1])
    /\ ~last.ret

\* The modifiers of ev that take part in a lookup.
Masked(ev) == ev.mods \cap mod_mask

\* C12. Shift fallback: when shift is held, the event carries a shifted key,
\* the primary lookup (modifiers, key) misses and the keymap has an entry for
\* (modifiers without shift, shifted key), get_shortcut returns that entry;
\* when shift is not held or the event carries no shifted key, a primary miss
\* goes straight to the native lookup and the shifted entry is never returned.
C12_ShiftFallback ==
    (last.op = "resolved"
     /\ SingleKey(Masked(last.ev), FALSE, last.ev.key) \notin DOMAIN last.keymap_before) =>
        IF "shift" \in last.ev.mods /\ last.ev.shifted_key # NoKey
        THEN SingleKey(Masked(last.ev) \ {"shift"}, FALSE, last.ev.shifted_key)
                    \in DOMAIN last.keymap_before
                => last.key_action =
                       last.keymap_before[SingleKey(Masked(last.ev) \ {"shift"}, FALSE,
                                                    last.ev.shifted_key)]
        ELSE last.key_action =
                KeyMapGet(last.keymap_before,
                          SingleKey(Masked(last.ev), TRUE, last.ev.native_key))

\* C12 witness: shift+a with shifted key A, in a keymap whose only entry is
\* (no modifiers, A), resolves to that entry.
C12_Witness ==
    /\ last.op = "resolved"
    /\ DOMAIN last.keymap_before = {SingleKey({}, FALSE, "A")}
    /\ last.ev = KeyEvent({"shift"}, "a", "A", "n_a")
    /\ last.key_action = <<Map("A")>>

C14_ReloadKeepsStack ==
    /\ last.op = "reload" =>
          /\ stack = last.before
          /\ ignore_os = last.ignore_before
          /\ options = last.definition
          /\ global_shortcuts_map(options)
                = GlobalShortcutsMapFrom(SetCocoaGlobalShortcuts(last.definition))
          /\ \A sk \in DOMAIN keyboard_modes(options)[""].keymap :
                keyboard_modes(options)[""].keymap[sk] = OptionsRootKeymap(last.definition)[sk]
    /\ (/\ last.op = "key" /\ last.ev = EvCtrlS
        /\ InSequence(last.before)
        /\ TopOf(last.before).sequence_keys = Some(<<EvCtrlX>>))
          => /\ last.calls = <<HandledCall("app", "save_session")>>
             /\ last.ret
             /\ stack = Front(last.before)

\* C14 witness: the second configuration, which redefines the mode mb, is
\* loaded while a chord is in progress inside the mode mb of the first.
C14_Witness ==
    /\ last.op = "reload"
    /\ last.options_before = "first" /\ options = "second"
    /\ Len(stack) = 2
    /\ stack[1] = keyboard_modes("first")["mb"]
    /\ stack[1] # keyboard_modes(options)["mb"]
    /\ stack[2].sequence_keys = Some(<<EvCtrlX>>)

\* C15. In every reachable state, after construction and after every
\* reload, no SingleKey is both in the root mode's keymap and in the global
\* shortcut map.
C15_RootExcludesGlobal ==
    DOMAIN keyboard_modes(options)[""].keymap \cap DOMAIN global_shortcuts_map(options) = {}

\* C15 witness: the second configuration is loaded; its options bind ctrl+s
\* to new_tab in the root keymap, which makes ctrl+s a global shortcut.
C15_Witness ==
    /\ last.op = "reload" /\ options = "second"
    /\ CtrlS \in DOMAIN OptionsRootKeymap(options)
    /\ CtrlS \in DOMAIN global_shortcuts_map(options)
    /\ CtrlS \notin DOMAIN keyboard_modes(options)[""].keymap

\* No chord is in progress, the event has no candidate in the active mode's
\* keymap, is no modifier key and matches the global shortcut map.
GlobalCase ==
    /\ last.op = "key"
    /\ ~InSequence(last.before)
    /\ get_shortcut(ActiveMode(last.before, last.options_before).keymap, last.ev) = <<>>
    /\ ~is_modifier_key(last.ev.key)
    /\ get_shortcut(global_shortcuts_map(last.options_before), last.ev) # <<>>

\* C16 as claimed. Such an event is consumed, leaves the mode stack unchanged,
\* and the action of the matching global binding is dispatched.
C16_GlobalActionDispatched ==
    GlobalCase =>
        /\ last.ret
        /\ stack = last.before
        /\ \E i \in 1..Len(last.calls) :
              last.calls[i].func =
                 get_shortcut(global_shortcuts_map(last.options_before), last.ev)[1].definition

\* C16 amended. Such an event is consumed and leaves the mode stack
\* unchanged, and the call dispatches nothing: no combine call, no handler
\* call, no error, no replayed key and no new timer.
C16_GlobalOnlyConsumed ==
    GlobalCase =>
        /\ last.ret
        /\ stack = last.before
        /\ ignore_os = last.ignore_before
        /\ last.comb = <<>>
        /\ last.calls = <<>>
        /\ last.errors = <<>>
        /\ last.sent = <<>>
        /\ timers = last.timers_before

\* C16 witness: ctrl+q, the global shortcut of new_tab, pressed in root mode.
C16_Witness ==
    /\ GlobalCase
    /\ last.ev = EvCtrlQ /\ last.before = <<>>
    /\ last.ret /\ last.calls = <<>>

\* What the resolver selects for ev in the active mode of stack st.
Selected(ev, st, o) ==
    IF get_shortcut(ActiveMode(st, o).keymap, ev) = <<>> THEN <<>>
    ELSE matching_key_actions(get_shortcut(ActiveMode(st, o).keymap, ev))

\* A chord is in progress and the key selects exactly one candidate, which
\* has no further continuation.
TerminalCase ==
    /\ last.op = "key"
    /\ InSequence(last.before)
    /\ Len(Selected(last.ev, last.before, last.options_before)) = 1
    /\ Selected(last.ev, last.before, last.options_before)[1].rest = <<>>

\* The sequence mode was popped, then the candidate's definition was handed to
\* combine, once; when combine did not consume, the buffered keys were replayed.
TerminalDispatch ==
    /\ Len(last.comb) = 1
    /\ last.comb[1].definition =
          Selected(last.ev, last.before, last.options_before)[1].definition
    /\ last.comb[1].before = Front(last.before)
    /\ stack = last.comb[1].after
    /\ last.sent = IF last.comb[1].ret THEN <<>>
                   ELSE TheValue(TopOf(last.before).sequence_keys)

\* C17 as claimed. The key that completes a chord pops the sequence mode and
\* dispatches the action, replays the buffered keys when the dispatch did not
\* consume, and is reported consumed in both cases.
C17_TerminalAlwaysConsumed ==
    TerminalCase => (TerminalDispatch /\ last.ret)

\* C17 amended. The key that completes a chord pops the sequence mode and
\* dispatches the action; the call returns what the dispatch returned: consumed
\* when the action consumed, and when it did not, the buffered keys are
\* replayed and the call returns not-consumed.
C17_TerminalReturnsDispatch ==
    TerminalCase => (TerminalDispatch /\ last.ret = last.comb[1].ret)

\* C17 witness: ctrl+x > ctrl+d is bound to an action no scope exposes; ctrl+d
\* completes the chord, ctrl+x is replayed and the call returns not-consumed.
C17_Witness ==
    /\ TerminalCase
    /\ last.ev = EvCtrlD
    /\ last.sent = <<EvCtrlX>>
    /\ ~last.ret

\* A chord is in progress and the event has no candidate in the sequence
\* mode's keymap.
NoCandidateInSequence ==
    /\ last.op = "key"
    /\ InSequence(last.before)
    /\ get_shortcut(TopOf(last.before).keymap, last.ev) = <<>>

\* The sequence mode was popped, the buffered keys were replayed once and in
\* order, nothing was dispatched and the call returned not-consumed.
Abandoned ==
    /\ stack = Front(last.before)
    /\ last.sent = TheValue(TopOf(last.before).sequence_keys)
    /\ last.calls = <<>> /\ last.comb = <<>>
    /\ ~last.ret

\* C18 as claimed. From SEQUENCE, every event without a candidate in the
\* sequence mode's keymap abandons the chord.
C18_EveryMissAbandons ==
    NoCandidateInSequence => Abandoned

\* C18 amended. From SEQUENCE, an event without a candidate abandons the
\* chord when it is no modifier key and matches no global shortcut; a modifier
\* key is reported not-consumed and a global shortcut consumed, and both
\* leave the chord in progress with nothing replayed.
C18_MissAbandonsUnlessModifierOrGlobal ==
    NoCandidateInSequence =>
        IF is_modifier_key(last.ev.key)
        THEN stack = last.before /\ last.sent = <<>> /\ ~last.ret
        ELSE IF get_shortcut(global_shortcuts_map(last.options_before), last.ev) # <<>>
        THEN stack = last.before /\ last.sent = <<>> /\ last.ret
        ELSE Abandoned

\* C18 witness: ctrl+x, ctrl+c, then the unbound key k: both buffered keys
\* are replayed in the order pressed.
C18_Witness ==
    /\ NoCandidateInSequence
    /\ last.ev = EvK
    /\ last.sent = <<EvCtrlX, EvCtrlC>>
    /\ stack = Front(last.before)
    /\ ~last.ret

\* A chord is in progress and the key selects candidates that all still have
\* continuations.
ContinuationCase ==
    /\ last.op = "key"
    /\ InSequence(last.before)
    /\ Selected(last.ev, last.before, last.options_before) # <<>>
    /\ \A i \in 1..Len(Selected(last.ev, last.before, last.options_before)) :
          Selected(last.ev, last.before, last.options_before)[i].rest # <<>>

\* The buffers a chord of the configuration can have filled, with the keymap
\* the sequence mode holds at that point.
ChordProgress ==
    {[sequence_keys |-> Some(<<EvCtrlX>>),
      keymap |-> (CtrlS :> <<Chord(<<>>, "save_session")>>)
                 @@ (CtrlD :> <<Chord(<<>>, "nosuch")>>)
                 @@ (CtrlC :> <<Chord(<<CtrlC>>, "new_tab")>>)],
     [sequence_keys |-> Some(<<EvCtrlX, EvCtrlC>>),
      keymap |-> (CtrlC :> <<Chord(<<>>, "new_tab")>>)]}

\* C19. From SEQUENCE, a key whose selected candidates all continue is
\* appended to sequence_keys; the sequence mode stays on top of a stack of
\* the same depth, nothing is dispatched and the call returns consumed. So
\* the buffer of every sequence mode on the stack is, in order, the keys
\* accepted as chord steps since the chord began.
C19_ContinuationAppends ==
    /\ ContinuationCase =>
          /\ last.ret
          /\ last.calls = <<>> /\ last.comb = <<>> /\ last.sent = <<>>
          /\ Len(stack) = Len(last.before)
          /\ Front(stack) = Front(last.before)
          /\ TopOf(stack).name = TopOf(last.before).name
          /\ TopOf(stack).sequence_keys =
                Some(Append(TheValue(TopOf(last.before).sequence_keys), last.ev))
    /\ \A i \in 1..Len(stack) :
          stack[i].sequence_keys # None =>
              [sequence_keys |-> stack[i].sequence_keys, keymap |-> stack[i].keymap]
                  \in ChordProgress

\* C19 witness: ctrl+x, then ctrl+c, the second key of ctrl+x > ctrl+c > ctrl+c.
C19_Witness ==
    /\ ContinuationCase
    /\ last.ev = EvCtrlC
    /\ TopOf(stack).sequence_keys = Some(<<EvCtrlX, EvCtrlC>>)
    /\ last.ret

\* No chord is in progress and the first candidate selected for the key is
\* sequence-flagged.
PrefixCase ==
    /\ last.op = "key"
    /\ ~InSequence(last.before)
    /\ Selected(last.ev, last.before, last.options_before) # <<>>
    /\ Selected(last.ev, last.before, last.options_before)[1].is_sequence

\* kd with its first remaining chord key taken off.
ShiftedForward(kd) == [kd EXCEPT !.rest = SubSeq(kd.rest, 2, Len(kd.rest))]

\* keymap files every candidate of sel, shifted forward, under the
\* candidate's next chord key, in the order of sel, and holds nothing else.
FilesShifted(keymap, sel) ==
    /\ DOMAIN keymap = {sel[i].rest[1] : i \in 1..Len(sel)}
    /\ \A i \in 1..Len(sel) :
          \E j \in 1..Len(keymap[sel[i].rest[1]]) :
              keymap[sel[i].rest[1]][j] = ShiftedForward(sel[i])
    /\ \A sk \in DOMAIN keymap :
          /\ Len(keymap[sk]) = Cardinality({i \in 1..Len(sel) : sel[i].rest[1] = sk})
          /\ \A j \in 1..Len(keymap[sk]) :
                \E i \in 1..Len(sel) :
                    sel[i].rest[1] = sk /\ keymap[sk][j] = ShiftedForward(sel[i])

\* C20. From IDLE, a key whose first selected candidate is sequence-flagged
\* pushes one new sequence mode whose buffer holds exactly this event and
\* whose keymap maps the next chord key of every selected candidate to that
\* candidate shifted forward by one step, so each chord sharing the prefix
\* is still found under its own next key; nothing is dispatched and the call
\* returns consumed.
C20_PrefixPushesSequenceMode ==
    PrefixCase =>
        /\ last.ret
        /\ last.calls = <<>> /\ last.comb = <<>> /\ last.sent = <<>>
        /\ Len(stack) = Len(last.before) + 1
        /\ Front(stack) = last.before
        /\ TopOf(stack).sequence_keys = Some(<<last.ev>>)
        /\ TopOf(stack).on_action = "end"
        /\ ignore_os
        /\ FilesShifted(TopOf(stack).keymap,
                        Selected(last.ev, last.before, last.options_before))
        /\ \A i \in 1..Len(Selected(last.ev, last.before, last.options_before)) :
              get_shortcut(TopOf(stack).keymap,
                           KeyEvent(Selected(last.ev, last.before, last.options_before)[i].rest[1][1],
                                    Selected(last.ev, last.before, last.options_before)[i].rest[1][3],
                                    NoKey, NoKey)) # <<>>

\* C20 witness: ctrl+x, the prefix of three chords, pressed inside the mode
\* mb: the new sequence mode files the three chords under ctrl+s, ctrl+d, ctrl+c.
C20_Witness ==
    /\ PrefixCase
    /\ last.ev = EvCtrlX
    /\ Len(last.before) = 1 /\ last.before[1].name = "mb"
    /\ Len(Selected(last.ev, last.before, last.options_before)) = 3
    /\ DOMAIN TopOf(stack).keymap = {CtrlS, CtrlD, CtrlC}
    /\ TopOf(stack).sequence_keys = Some(<<EvCtrlX>>)

\* A list of candidates has been selected from and one of them is
\* sequence-flagged.
SequenceCandidates ==
    /\ last.op = "selected"
    /\ \E i \in 1..Len(last.candidates) : last.candidates[i].is_sequence

\* The positions of the terminal entries of cs (no remaining chord steps).
Terminals(cs) == {i \in 1..Len(cs) : cs[i].rest = <<>>}

\* The position of the last terminal entry of cs.
LastTerminal(cs) == CHOOSE i \in Terminals(cs) : \A j \in Terminals(cs) : j <= i

\* C21 as claimed. With a sequence-flagged candidate, the entries retained
\* before the when_focus_on filter are the last terminal entry and every
\* entry after it, or all entries when none is terminal.
C21_KeepsLastTerminalAndAfter ==
    SequenceCandidates =>
        last.retained =
            IF Terminals(last.candidates) = {} THEN last.candidates
            ELSE SubSeq(last.candidates, LastTerminal(last.candidates),
                        Len(last.candidates))

\* C21 amended. With a sequence-flagged candidate, the entries retained
\* before the when_focus_on filter are: all entries when none is terminal;
\* the last candidate alone when it is terminal; otherwise only the entries
\* after the last terminal entry, which is itself dropped.
C21_KeepsAfterLastTerminal ==
    SequenceCandidates =>
        last.retained =
            IF Terminals(last.candidates) = {} THEN last.candidates
            ELSE IF LastTerminal(last.candidates) = Len(last.candidates)
            THEN <<last.candidates[Len(last.candidates)]>>
            ELSE SubSeq(last.candidates, LastTerminal(last.candidates) + 1,
                        Len(last.candidates))

\* C21 witness: a terminal entry followed by two continuing ones; only the
\* two continuing entries are retained.
C21_Witness ==
    /\ SequenceCandidates
    /\ Len(last.candidates) = 3
    /\ Terminals(last.candidates) = {1}
    /\ last.retained = SubSeq(last.candidates, 2, 3)

\* The position in cs of the entry kd (definitions name positions).
PositionIn(cs, kd) == CHOOSE i \in 1..Len(cs) : cs[i] = kd

\* C22. With a sequence-flagged candidate, the result is not empty, every
\* entry returned has the when_focus_on of the last candidate, the last
\* candidate is the last entry returned, and the entries are candidates in
\* their original relative order.
C22_SelectionSharesFocusOfLast ==
    SequenceCandidates =>
        /\ last.selected # <<>>
        /\ \A k \in 1..Len(last.selected) :
              /\ last.selected[k].when_focus_on =
                    last.candidates[Len(last.candidates)].when_focus_on
              /\ \E i \in 1..Len(last.candidates) : last.candidates[i] = last.selected[k]
        /\ last.selected[Len(last.selected)] = last.candidates[Len(last.candidates)]
        /\ \A k \in 1..(Len(last.selected) - 1) :
              PositionIn(last.candidates, last.selected[k])
                  < PositionIn(last.candidates, last.selected[k + 1])

\* C22 witness: three continuing candidates, the middle one with another
\* focus condition: the first and the last are returned, in that order.
C22_Witness ==
    /\ SequenceCandidates
    /\ Len(last.candidates) = 3
    /\ Terminals(last.candidates) = {}
    /\ last.candidates[1].when_focus_on = "vim"
    /\ last.candidates[2].when_focus_on = ""
    /\ last.selected = <<last.candidates[1], last.candidates[3]>>

\* C23. Without a sequence-flagged candidate, matching_key_actions returns
\* exactly one entry, the last candidate.
C23_LastCandidateOnly ==
    (last.op = "selected"
     /\ \A i \in 1..Len(last.candidates) : ~last.candidates[i].is_sequence)
        => last.selected = <<last.candidates[Len(last.candidates)]>>

\* C23 witness: three plain candidates with different focus conditions; the
\* third is the only one returned.
C23_Witness ==
    /\ last.op = "selected"
    /\ Len(last.candidates) = 3
    /\ \A i \in 1..3 : ~last.candidates[i].is_sequence
    /\ last.candidates[2].when_focus_on # last.candidates[3].when_focus_on
    /\ last.selected = <<last.candidates[3]>>

\* A non-root mode with on_action = end is active and the key resolves to a
\* binding that is not sequence-flagged.
OneShotCase ==
    /\ last.op = "key"
    /\ last.before # <<>>
    /\ TopOf(last.before).sequence_keys = None
    /\ TopOf(last.before).on_action = "end"
    /\ Selected(last.ev, last.before, last.options_before) # <<>>
    /\ ~Selected(last.ev, last.before, last.options_before)[1].is_sequence

\* Stack st without the entry at position pos, when that entry is still mode.
WithoutModeAt(st, pos, mode) ==
    IF pos <= Len(st) /\ st[pos] = mode
    THEN SubSeq(st, 1, pos - 1) \o SubSeq(st, pos + 1, Len(st))
    ELSE st

\* The binding's definition was handed to combine, once, and the call
\* returned what combine returned.
OneShotDispatch ==
    /\ Len(last.comb) = 1
    /\ last.comb[1].definition =
          Selected(last.ev, last.before, last.options_before)[1].definition
    /\ last.comb[1].before = last.before
    /\ last.ret = last.comb[1].ret

\* C24 as claimed. In a one-shot mode the action is dispatched and the mode
\* is off the stack after the call whatever the dispatcher reported; the call
\* returns what the dispatcher reported.
C24_OneShotAlwaysEnds ==
    OneShotCase =>
        /\ OneShotDispatch
        /\ stack = WithoutModeAt(last.comb[1].after, Len(last.before), TopOf(last.before))

\* C24 amended. In a one-shot mode the action is dispatched and the call
\* returns what the dispatcher reported; the mode is taken off the stack only
\* when the dispatcher reported consumed (a handler that raised counts as
\* consumed) and the mode is still at its position; when the dispatcher
\* reported not-consumed the mode stays.
C24_OneShotEndsWhenConsumed ==
    OneShotCase =>
        /\ OneShotDispatch
        /\ stack = IF last.comb[1].ret
                   THEN WithoutModeAt(last.comb[1].after, Len(last.before),
                                      TopOf(last.before))
                   ELSE last.comb[1].after

\* C24 witness: in the one-shot mode shot, ctrl+n is bound to an action no
\* scope exposes: not consumed, and the mode is still active.
C24_Witness ==
    /\ OneShotCase
    /\ last.ev = EvCtrlN
    /\ TopOf(last.before).name = "shot"
    /\ ~last.ret
    /\ stack = last.before

\* Nothing was dispatched and the mode stack and the flag are as before.
NothingHappened ==
    /\ stack = last.before
    /\ ignore_os = last.ignore_before
    /\ timers = last.timers_before
    /\ last.comb = <<>> /\ last.calls = <<>>
    /\ last.errors = <<>> /\ last.sent = <<>>

\* C25. A non-modifier event with no candidate in the active mode and no
\* global shortcut: in a non-root, non-sequence mode with on_unknown = beep
\* or ignore the call returns consumed, with on_unknown = passthrough it
\* returns not-consumed, and in both cases the mode stack is unchanged and
\* nothing is dispatched; in root mode the call returns not-consumed.
C25_OnUnknownPolicy ==
    (last.op = "key" /\ Unknown(last.ev, last.before, last.options_before)) =>
        IF last.before = <<>> THEN ~last.ret /\ NothingHappened
        ELSE IF TopOf(last.before).sequence_keys # None THEN TRUE
        ELSE IF TopOf(last.before).on_unknown \in {"beep", "ignore"}
        THEN last.ret /\ NothingHappened
        ELSE IF TopOf(last.before).on_unknown = "passthrough"
        THEN ~last.ret /\ NothingHappened
        ELSE TRUE

\* C25 witness: the unbound key k is swallowed in the mode shot, whose
\* on_unknown is ignore.
C25_Witness ==
    /\ last.op = "key" /\ last.ev = EvK
    /\ Unknown(last.ev, last.before, last.options_before)
    /\ last.before # <<>>
    /\ TopOf(last.before).name = "shot"
    /\ TopOf(last.before).on_unknown = "ignore"
    /\ last.ret
    /\ stack = last.before

\* The event is a modifier key without a candidate in the active mode, and no
\* chord is in progress.
ModifierCase ==
    /\ last.op = "key"
    /\ ~InSequence(last.before)
    /\ is_modifier_key(last.ev.key)
    /\ get_shortcut(ActiveMode(last.before, last.options_before).keymap, last.ev) = <<>>

\* C26. Such an event is reported not-consumed and changes nothing: the mode
\* stack, the keymaps (the loaded configuration), the flag and the timers are
\* as before and nothing is dispatched, whether or not the global shortcut
\* map has an entry for it.
C26_ModifierIgnored ==
    ModifierCase =>
        /\ ~last.ret
        /\ NothingHappened
        /\ options = last.options_before

\* C26 witness: the shift key, which is a global shortcut in the second
\* configuration, pressed with a mode on the stack.
C26_Witness ==
    /\ ModifierCase
    /\ last.ev = EvShift
    /\ get_shortcut(global_shortcuts_map(last.options_before), last.ev) # <<>>
    /\ last.before # <<>>
    /\ ~last.ret
    /\ stack = last.before

\* The event has a binding in the keymap of the mode on top of the stack and
\* also matches a global shortcut.
BoundInModeAndGlobal ==
    /\ last.op = "key"
    /\ last.before # <<>>
    /\ get_shortcut(TopOf(last.before).keymap, last.ev) # <<>>
    /\ get_shortcut(global_shortcuts_map(last.options_before), last.ev) # <<>>

\* C27. Such an event dispatches the binding of the active mode: the
\* definition handed to combine is the one the mode's keymap selects, and the
\* action of the global binding is not called.
C27_ModeBindingBeatsGlobal ==
    BoundInModeAndGlobal =>
        LET mine == matching_key_actions(get_shortcut(TopOf(last.before).keymap, last.ev))
            theirs == get_shortcut(global_shortcuts_map(last.options_before), last.ev)
        IN  /\ last.branch # "global"
            /\ Len(last.comb) = 1
            /\ last.comb[1].definition = mine[1].definition
            /\ \A i \in 1..Len(last.calls) : last.calls[i].func # theirs[1].definition

\* C27 witness: ctrl+s in the mode mb of the second configuration, where it
\* is bound to save_session and is also the global shortcut of new_tab.
C27_Witness ==
    /\ BoundInModeAndGlobal
    /\ last.ev = EvCtrlS
    /\ TopOf(last.before).name = "mb"
    /\ last.comb # <<>>
    /\ last.comb[1].definition = "save_session"
    /\ get_shortcut(global_shortcuts_map(last.options_before), last.ev)[1].definition = "new_tab"

\* The keymap the lookup has to use: that of the top of the stack, and the
\* root mode's exactly when the stack is empty.
ConsultedKeymap ==
    IF last.before = <<>> THEN keyboard_modes(last.options_before)[""].keymap
    ELSE last.before[Len(last.before)].keymap

\* C28. Whatever a key event dispatches is the binding selected in the keymap
\* of the top of the stack, or of the root mode exactly when the stack is
\* empty; a key without a binding there dispatches nothing, whatever the root
\* mode or the modes lower in the stack bind it to.
C28_OnlyActiveModeConsulted ==
    last.op = "key" =>
        IF get_shortcut(ConsultedKeymap, last.ev) = <<>>
        THEN last.comb = <<>> /\ last.calls = <<>>
        ELSE LET chosen == matching_key_actions(get_shortcut(ConsultedKeymap, last.ev))
             IN  IF chosen[1].is_sequence /\ chosen[1].rest # <<>>
                 THEN last.comb = <<>>
                 ELSE /\ Len(last.comb) = 1
                      /\ last.comb[1].definition = chosen[1].definition

\* C28 witness: ctrl+b completes no chord of the sequence mode on top, while
\* the mode below it binds ctrl+b; nothing is dispatched.
C28_Witness ==
    /\ last.op = "key" /\ last.ev = EvCtrlB
    /\ Len(last.before) = 2
    /\ CtrlB \notin DOMAIN last.before[2].keymap
    /\ CtrlB \in DOMAIN last.before[1].keymap
    /\ last.comb = <<>> /\ last.calls = <<>>

\* The three lookups of an event in the probed keymap, <<>> for a miss.
PrimaryHit == KeyMapGet(last.keymap_before, <<Masked(last.ev), FALSE, last.ev.key>>)

ShiftedHit ==
    IF "shift" \in Masked(last.ev) /\ last.ev.shifted_key # NoKey
    THEN KeyMapGet(last.keymap_before,
                   <<Masked(last.ev) \ {"shift"}, FALSE, last.ev.shifted_key>>)
    ELSE <<>>

NativeHit == KeyMapGet(last.keymap_before, <<Masked(last.ev), TRUE, last.ev.native_key>>)

\* C29. get_shortcut returns the entry list of the first lookup that hits, in
\* the order primary key, shifted key, native key; the list is the one stored
\* under that identity, nothing from the other identities is added; the
\* native lookup uses the masked modifiers, shift included, with native = true.
C29_LookupOrder ==
    last.op = "resolved" =>
        /\ PrimaryHit # <<>> => last.key_action = PrimaryHit
        /\ (PrimaryHit = <<>> /\ ShiftedHit # <<>>) => last.key_action = ShiftedHit
        /\ (PrimaryHit = <<>> /\ ShiftedHit = <<>>) => last.key_action = NativeHit

\* C29 witness: shift+a with shifted key A and native key n_a, in a keymap
\* that holds all three identities; the primary entry is returned.
C29_Witness ==
    /\ last.op = "resolved"
    /\ last.ev = KeyEvent({"shift"}, "a", "A", "n_a")
    /\ PrimaryHit # <<>> /\ ShiftedHit # <<>> /\ NativeHit # <<>>
    /\ last.key_action = <<Map("shift+a")>>

\* The event with modifier x pressed if it was not, released if it was.
Toggled(ev, x) ==
    [ev EXCEPT !.mods = IF x \in @ THEN @ \ {x} ELSE @ \cup {x}]

LockModifiers == {"caps_lock", "num_lock"}

\* C30 as claimed. Each of ctrl, alt, shift, super, hyper, meta, caps-lock and
\* num-lock is significant: two events that differ in one of them are looked
\* up under different SingleKeys.
C30_LocksAreSignificant ==
    last.op = "resolved" =>
        \A x \in {"ctrl", "alt", "shift", "super", "hyper", "meta", "caps_lock", "num_lock"} :
            PrimaryKey(Toggled(last.ev, x)) # PrimaryKey(last.ev)

\* C30 amended. The recognized set is ctrl, alt, shift, super, hyper and
\* meta: two events that differ in one of them are looked up under different
\* SingleKeys. Caps-lock and num-lock are outside the set: toggling one of
\* them changes neither the SingleKey nor what the lookup returns.
C30_MaskWithoutLocks ==
    last.op = "resolved" =>
        /\ \A x \in {"ctrl", "alt", "shift", "super", "hyper", "meta"} :
              PrimaryKey(Toggled(last.ev, x)) # PrimaryKey(last.ev)
        /\ \A x \in LockModifiers :
              /\ PrimaryKey(Toggled(last.ev, x)) = PrimaryKey(last.ev)
              /\ get_shortcut(last.keymap_before, Toggled(last.ev, x)) = last.key_action

\* C30 witness: ctrl+a with caps-lock on resolves to the binding stored
\* under the native key with ctrl, as it does with caps-lock off.
C30_Witness ==
    /\ last.op = "resolved"
    /\ last.ev.mods = {"ctrl", "caps_lock"}
    /\ last.key_action = <<Map("ctrl+native")>>
    /\ get_shortcut(last.keymap_before, Toggled(last.ev, "caps_lock")) = last.key_action

\* The event that presses exactly the key sk.
EventOf(sk) == KeyEvent(sk[1], sk[3], NoKey, NoKey)

\* C31. When a chord advances, the sequence mode's keymap is rebuilt: it
\* files the candidates selected by this key, shifted forward, under their
\* next chord keys and holds nothing else, so a key of the previous step that
\* is not a next key of a selected candidate finds nothing any more.
C31_KeymapRebuilt ==
    ContinuationCase =>
        /\ FilesShifted(TopOf(stack).keymap,
                        Selected(last.ev, last.before, last.options_before))
        /\ \A sk \in DOMAIN TopOf(last.before).keymap :
              (\A i \in 1..Len(Selected(last.ev, last.before, last.options_before)) :
                    Selected(last.ev, last.before, last.options_before)[i].rest[1] # sk)
                 => get_shortcut(TopOf(stack).keymap, EventOf(sk)) = <<>>

\* C31 witness: after ctrl+x the sequence mode files ctrl+s, ctrl+d and
\* ctrl+c; ctrl+c advances the chord and only ctrl+c is left.
C31_Witness ==
    /\ ContinuationCase
    /\ last.ev = EvCtrlC
    /\ DOMAIN TopOf(last.before).keymap = {CtrlS, CtrlD, CtrlC}
    /\ DOMAIN TopOf(stack).keymap = {CtrlC}
    /\ get_shortcut(TopOf(stack).keymap, EvCtrlS) = <<>>

\* The mode was synthesized by the dispatcher for a chord.
Synthesized(mode) == mode.name = "__sequence__"

\* C32. Every synthesized sequence mode on the stack has a buffer, the
\* buffer holds at least one key and the keymap at least one entry; every
\* other mode on the stack, and the root mode of the loaded configuration,
\* has no buffer.
C32_SequenceModesWellFormed ==
    /\ \A i \in 1..Len(stack) :
          IF Synthesized(stack[i])
          THEN /\ stack[i].sequence_keys # None
               /\ TheValue(stack[i].sequence_keys) # <<>>
               /\ DOMAIN stack[i].keymap # {}
          ELSE stack[i].sequence_keys = None
    /\ keyboard_modes(options)[""].sequence_keys = None

\* C32 witness: a chord advanced by one key inside the configured mode mb.
C32_Witness ==
    /\ Len(stack) = 2
    /\ stack[1].name = "mb" /\ stack[1].sequence_keys = None
    /\ Synthesized(stack[2])
    /\ Len(TheValue(stack[2].sequence_keys)) = 2
    /\ DOMAIN stack[2].keymap # {}

\* C33. A synthesized sequence mode is on the mode stack only as its top
\* element, and at most one sequence mode is on the stack, also when ticks
\* of pending chains run between key events.
C33_SequenceModeOnlyOnTop ==
    /\ \A i \in 1..Len(stack) : stack[i].sequence_keys # None => i = Len(stack)
    /\ Cardinality({i \in 1..Len(stack) : stack[i].sequence_keys # None}) <= 1

\* C34. After any sequence of push_keyboard_mode, pop_keyboard_mode,
\* clear_keyboard_modes and dispatch_possible_special_key calls the flag
\* 'ignore OS keyboard processing' is on exactly when the mode stack is
\* non-empty.
C34_FlagFollowsStack ==
    ignore_os <=> (stack # <<>>)

\* C34 witness: clear_keyboard_modes empties a stack of two modes and the
\* flag, on before, is off.
C34_Witness ==
    /\ last.op = "clear"
    /\ Len(last.before) = 2
    /\ last.ignore_before
    /\ stack = <<>>
    /\ ~ignore_os

\* C35. When a binding dispatched in a one-shot mode is consumed, the
\* automatic pop removes the mode that was active when the key arrived and
\* nothing else: when the action pushed a mode, the one-shot mode is taken
\* from beneath it and the new mode stays on top; when the action popped the
\* one-shot mode itself, no further mode is removed; when the action left
\* the stack alone, the one-shot mode is removed from the top.
C35_OneShotPopIsPositional ==
    (OneShotCase /\ last.ret /\ Len(last.comb) = 1) =>
        /\ (Len(last.comb[1].after) = Len(last.before) + 1
                /\ Front(last.comb[1].after) = last.before)
              => stack = Append(Front(last.before), TopOf(last.comb[1].after))
        /\ last.comb[1].after = Front(last.before) => stack = Front(last.before)
        /\ last.comb[1].after = last.before => stack = Front(last.before)

\* C35 witness: f2 pressed in the one-shot mode mp pushes the mode shot; mp
\* is removed from beneath it and shot is the only mode left.
C35_Witness ==
    /\ OneShotCase /\ last.ret
    /\ last.ev = EvF2
    /\ Len(last.before) = 1 /\ last.before[1].name = "mp"
    /\ Len(last.comb) = 1
    /\ Len(last.comb[1].after) = 2 /\ last.comb[1].after[2].name = "shot"
    /\ Len(stack) = 1 /\ stack[1].name = "shot"

\* C36. Every action of a chain is dispatched with the window and the
\* dispatch type that were passed to combine: the first action in the
\* combine call, the later ones from the pending timers when they fire.
C36_ChainKeepsTarget ==
    /\ last.op \in {"combine", "tick"} =>
          \A i \in 1..Len(last.calls) :
              /\ last.calls[i].window = ChainWindow
              /\ last.calls[i].dispatch_type = ChainDispatchType
    /\ \A i \in 1..Len(timers) :
          /\ timers[i].window_for_dispatch = ChainWindow
          /\ timers[i].dispatch_type = ChainDispatchType

\* The key resolves, in the active mode, to a binding of pop_keyboard_mode.
PopKeyCase ==
    /\ last.op = "key"
    /\ Selected(last.ev, last.before, last.options_before) # <<>>
    /\ Selected(last.ev, last.before, last.options_before)[1].definition = "pop_keyboard_mode"

\* C37. pop_keyboard_mode on the empty stack changes nothing and returns
\* the passthrough signal, and a key bound to it pressed in root mode is
\* reported not-consumed; on a non-empty stack it removes exactly the top
\* mode and returns no passthrough, and the key is reported consumed.
C37_PopNeverUnderflows ==
    /\ last.op = "pop" =>
          IF last.before = <<>>
          THEN last.ret /\ stack = <<>> /\ ignore_os = last.ignore_before
          ELSE ~last.ret /\ stack = Front(last.before)
    /\ PopKeyCase =>
          IF last.before = <<>>
          THEN ~last.ret /\ stack = <<>> /\ ignore_os = last.ignore_before
          ELSE last.ret /\ stack = Front(last.before)

\* C37 witness: ctrl+p pressed in root mode: the handler ran and returned
\* the passthrough signal, and the key is not consumed.
C37_Witness ==
    /\ PopKeyCase
    /\ last.ev = EvCtrlP
    /\ last.before = <<>> /\ stack = <<>>
    /\ Len(last.calls) = 1 /\ last.calls[1].declined
    /\ ~last.ret

\* A chord is in progress on top of a configured mode M, and the key ends
\* the chord: it completes it, or it has no candidate, is no modifier key and
\* matches no global shortcut.
ChordEndsAboveMode ==
    /\ last.op = "key"
    /\ InSequence(last.before)
    /\ Len(last.before) >= 2
    /\ last.before[Len(last.before) - 1].sequence_keys = None
    /\ \/ TerminalCase
       \/ /\ NoCandidateInSequence
          /\ ~is_modifier_key(last.ev.key)
          /\ get_shortcut(global_shortcuts_map(last.options_before), last.ev) = <<>>

\* C38. When a chord started in a non-root mode M completes or is abandoned,
\* only the sequence mode is popped: M is the active mode afterwards and the
\* modes below it are as before, also when M is a one-shot mode and the
\* chord's action was consumed.
C38_ChordLeavesModeBelow ==
    ChordEndsAboveMode =>
        /\ stack = Front(last.before)
        /\ TopOf(stack) = last.before[Len(last.before) - 1]

\* C38 witness: ctrl+x > ctrl+s completed inside the one-shot mode shot; the
\* action is consumed and shot is still the active mode.
C38_Witness ==
    /\ ChordEndsAboveMode /\ TerminalCase
    /\ last.ev = EvCtrlS
    /\ last.ret
    /\ last.before[1].name = "shot" /\ last.before[1].on_action = "end"
    /\ Len(stack) = 1 /\ stack[1] = last.before[1]

\* The chord is still pending: the stack, with the sequence mode's buffer
\* and keymap, is as before, and nothing was replayed or dispatched.
ChordStillPending ==
    /\ stack = last.before
    /\ TopOf(stack).sequence_keys = TopOf(last.before).sequence_keys
    /\ TopOf(stack).keymap = TopOf(last.before).keymap
    /\ last.sent = <<>>
    /\ last.comb = <<>> /\ last.calls = <<>>

\* C39. While a chord is in progress, an event without a candidate in the
\* sequence mode leaves the chord pending when it is a modifier key, and is
\* then reported not-consumed, or when it matches a global shortcut, and is
\* then reported consumed.
C39_ModifierAndGlobalKeepChord ==
    NoCandidateInSequence =>
        /\ is_modifier_key(last.ev.key) => (ChordStillPending /\ ~last.ret)
        /\ (~is_modifier_key(last.ev.key)
             /\ get_shortcut(global_shortcuts_map(last.options_before), last.ev) # <<>>)
              => (ChordStillPending /\ last.ret)

\* C39 witness: ctrl+x, then ctrl+q, the global shortcut of new_tab: the
\* key is consumed and the chord still waits for its second key.
C39_Witness ==
    /\ NoCandidateInSequence
    /\ last.ev = EvCtrlQ
    /\ get_shortcut(global_shortcuts_map(last.options_before), last.ev) # <<>>
    /\ last.ret
    /\ stack = last.before
    /\ TopOf(stack).sequence_keys = Some(<<EvCtrlX>>)

\* A configured mode whose on_unknown is none of beep, ignore, passthrough is
\* active, and the event is unknown: no candidate, no modifier key, no global
\* shortcut.
UnknownEndsModeCase ==
    /\ last.op = "key"
    /\ last.before # <<>>
    /\ TopOf(last.before).sequence_keys = None
    /\ TopOf(last.before).on_unknown \notin {"beep", "ignore", "passthrough"}
    /\ get_shortcut(TopOf(last.before).keymap, last.ev) = <<>>
    /\ ~is_modifier_key(last.ev.key)
    /\ get_shortcut(global_shortcuts_map(last.options_before), last.ev) = <<>>

\* C40. Such an event pops that mode, and only that mode, and is reported
\* consumed; no action is dispatched and no key is replayed.
C40_UnknownEndsMode ==
    UnknownEndsModeCase =>
        /\ last.ret
        /\ stack = Front(last.before)
        /\ ignore_os = (stack # <<>>)
        /\ last.comb = <<>> /\ last.calls = <<>>
        /\ last.sent = <<>> /\ last.errors = <<>>
        /\ timers = last.timers_before

\* C40 witness: the unbound key k pressed in the mode me (on_unknown = end),
\* which sits above the mode mb; me is popped and mb is active again.
C40_Witness ==
    /\ UnknownEndsModeCase
    /\ last.ev = EvK
    /\ Len(last.before) = 2
    /\ last.before[1].name = "mb" /\ last.before[2].name = "me"
    /\ last.ret
    /\ stack = <<last.before[1]>>

====
